---------------------------- MODULE Spec2Model ----------------------------
(***************************************************************************)
(* A model of the opubliq/lead-generation pipeline: the Feed Collector     *)
(* (scrapers/google_news/scraper.py), the Feed Parser (1_parse_rss.py),    *)
(* the Relevance Filter (2_filter_with_llm.py), the Content Fetcher        *)
(* (2_download_html.py), the Content Extractor (3_build_warehouse.py),     *)
(* the Entity Extractor (4_extract_organizations.py) and the Lead          *)
(* Qualifier (5_qualify_leads.py), all but the first under                 *)
(* processors/google_news.                                                 *)
(*                                                                         *)
(* Each stage is a separate script, so each has its own specification      *)
(* over its own variables; the variables of the other stages stay idle.    *)
(* SpecPipeline is one run of any one stage; SpecPool is the thread pool   *)
(* of a stage on a batch larger than the pool.                             *)
(***************************************************************************)
EXTENDS Integers, Sequences, FiniteSets, TLC

(***************************************************************************)
(* Bounds of the model.                                                    *)
(***************************************************************************)
\* number of search signals iterated by the Collector (12 in SEARCH_QUERIES)
NumSignals == 2
\* longest feed one signal returns
MaxFeedLen == 2
\* longest item list handed to deduplicate_articles on its own
MaxItems == 4
\* the recency window, in model time units (days=14 in the source)
Window == 2
\* most rows of articles_raw.csv handed to the Fetcher
MaxArticles == 2
\* most rows of articles_raw.csv handed to the Relevance Filter
MaxRows == 2
\* longest response text of the classifier tried on evaluate_article
MaxTextLen == 3

\* most rows of articles_mapping.csv handed to the Extractor
MaxMappingRows == 2

\* most rows of the warehouse file handed to the Entity Extractor
MaxEntityRows == 2
\* most extractions handed to aggregate_organizations on its own, and most
\* mentions in one of them
MaxExtractions == 2
MaxMentions == 2

\* most items of the consolidated document handed to the Feed Parser
MaxDocItems == 2

\* most organisations handed to the Lead Qualifier
MaxOrgs == 2
\* the items handed to a pool in the specification of the pools
PoolTasks == 5

(***************************************************************************)
(* State.                                                                  *)
(***************************************************************************)
VARIABLES
    collector_pc,    \* where Collector main() is: idle/loop/dedup/write/done
    sig_idx,         \* index of the next signal of SEARCH_QUERIES
    feeds,           \* history: the response each signal's request got
    all_items,       \* main: all_items
    query_results,   \* main: query_results
    unique_items,    \* main: unique_items
    dedup_stats,     \* main: dedup_stats
    consolidated,    \* the file articles_consolidated.xml of today's partition
    flt              \* the last call of filter_rss_by_date: input and result

collectorVars ==
    <<collector_pc, sig_idx, feeds, all_items, query_results, unique_items,
      dedup_stats, consolidated, flt>>

VARIABLES
    fetcher_pc,        \* where Fetcher main() is
    articles,          \* the rows read from articles_raw.csv
    tasks,             \* main: tasks, one per row, with its article_counter
    counter,           \* main: counter[0]
    task,              \* per task: where process_article_download is
    collected,         \* the futures main has taken from as_completed
    filtered_articles, \* main: filtered_articles
    counts,            \* main: success_count, skipped_count, failed_count
    html_files,        \* the files article_NNNN.html of today's partition
    mapping_file,      \* the file articles_mapping.csv of today's partition
    dir_stale,         \* an earlier run of the same date left its files
    fetch_input        \* the file articles_raw.csv of today is there

fetcherVars ==
    <<fetcher_pc, articles, tasks, counter, task, collected,
      filtered_articles, counts, html_files, mapping_file, dir_stale,
      fetch_input>>

VARIABLES
    relevance_pc,        \* where Relevance Filter main() is
    rel_key,             \* GEMINI_API_KEY is set
    rel_input,           \* articles_raw.csv: its columns, and per row the
                         \* response the classifier gives for that row
    rel_idx,             \* main: the loop's i
    rel_results,         \* history: what each evaluate_article call gave
    rel_filtered,        \* main: filtered_articles
    scores_distribution, \* main: scores_distribution
    rel_output           \* the file articles_filtered.csv of today

relevanceVars ==
    <<relevance_pc, rel_key, rel_input, rel_idx, rel_results, rel_filtered,
      scores_distribution, rel_output>>

VARIABLES
    extractor_pc,    \* where Extractor main() is
    wh_mapping,      \* articles_mapping.csv: per row, what its stored
                     \* content does when read and extracted
    wh_idx,          \* main: the loop's i
    warehouse_data,  \* main: warehouse_data
    warehouse_file   \* the file google_news_<date>.csv of the warehouse

extractorVars ==
    <<extractor_pc, wh_mapping, wh_idx, warehouse_data, warehouse_file>>


VARIABLES
    entity_pc,            \* where Entity Extractor main() is
    ent_key,              \* GEMINI_API_KEY is set
    ent_input,            \* the warehouse file: per row, the response the
                          \* service gives for that row
    ent_task,             \* per task: where process_article is, its result
    ent_order,            \* the tasks in the order main took their futures
    all_extractions_data, \* main: all_extractions_data
    all_extractions,      \* main: all_extractions
    summaries,            \* main: summaries
    article_files,        \* org_extraites/<date>/article_NNNN.json, by NNNN
    orgs_file,            \* google_news_organizations_<date>.json
    summaries_file,       \* google_news_summaries_<date>.json
    debug_file,           \* debug_json_error.txt: the texts appended
    agg                   \* the last call of aggregate_organizations on its
                          \* own: input and result

entityVars ==
    <<entity_pc, ent_key, ent_input, ent_task, ent_order,
      all_extractions_data, all_extractions, summaries, article_files,
      orgs_file, summaries_file, debug_file, agg>>


VARIABLES
    parser_pc,     \* where Feed Parser main() is
    parser_input,  \* today's partition: the directory, and the consolidated
                   \* document with, per item, the signal that returned it
    all_articles,  \* main: all_articles
    raw_file       \* the file articles_raw.csv of today's partition

parserVars == <<parser_pc, parser_input, all_articles, raw_file>>


VARIABLES
    qualifier_pc,     \* where Lead Qualifier main() is
    qual_key,         \* GEMINI_API_KEY is set
    qual_input,       \* the organisations file: per organisation, the
                      \* response the service gives for it
    qual_task,        \* per task: where process_organization is, its result
    qual_order,       \* the tasks in the order main took their futures
    qualified_leads,  \* main: qualified_leads
    leads_file        \* the file google_news_leads.json of today's marts

qualifierVars ==
    <<qualifier_pc, qual_key, qual_input, qual_task, qual_order,
      qualified_leads, leads_file>>


nonCollectorVars ==
    <<fetcherVars, relevanceVars, extractorVars, entityVars,
      parserVars, qualifierVars>>
nonFetcherVars ==
    <<collectorVars, relevanceVars, extractorVars, entityVars,
      parserVars, qualifierVars>>
nonRelevanceVars ==
    <<collectorVars, fetcherVars, extractorVars, entityVars,
      parserVars, qualifierVars>>
nonExtractorVars ==
    <<collectorVars, fetcherVars, relevanceVars, entityVars,
      parserVars, qualifierVars>>
nonEntityVars ==
    <<collectorVars, fetcherVars, relevanceVars, extractorVars,
      parserVars, qualifierVars>>
nonParserVars ==
    <<collectorVars, fetcherVars, relevanceVars, extractorVars, entityVars,
      qualifierVars>>
nonQualifierVars ==
    <<collectorVars, fetcherVars, relevanceVars, extractorVars, entityVars, parserVars>>

vars ==
    <<collectorVars, fetcherVars, relevanceVars, extractorVars, entityVars,
      parserVars, qualifierVars>>

(***************************************************************************)
(* Generic helpers.                                                        *)
(***************************************************************************)
SeqsUpTo(S, n) == UNION {[1..k -> S] : k \in 0..n}

RECURSIVE Concat(_)
Concat(ss) == IF ss = <<>> THEN <<>> ELSE Head(ss) \o Concat(Tail(ss))

CountIf(s, P(_)) == Cardinality({i \in 1..Len(s) : P(s[i])})

(***************************************************************************)
(* ======================= FEED COLLECTOR ===============================  *)
(* scrapers/google_news/scraper.py                                         *)
(***************************************************************************)

\* <link> of an RSS item: the element may be missing, or its text empty;
\* otherwise the text is the URL.  URLs are compared as exact strings.
NoLink == "<no link element>"
EmptyLink == ""
Urls == {"http://n/u1", "http://n/U1", "http://n/u2"}
Links == Urls \cup {NoLink, EmptyLink}

\* Instants are integers (one unit = the clock's resolution).
Times == 0..(Window + 3)
\* the values datetime.now(pytz.UTC) takes during a run
Nows == {Window + 1, Window + 2}

\* <pubDate> of an RSS item, by what dateutil's parser makes of its text:
\*   absent  - no pubDate element
\*   empty   - element with no text
\*   garbage - text date_parser.parse rejects (raises)
\*   naive   - text that parses to a datetime without a UTC offset
\*   aware   - text that parses to a datetime with a UTC offset (RFC 822)
Dates ==
    [kind : {"absent", "empty", "garbage"}, t : {0}]
      \cup [kind : {"naive", "aware"}, t : Times]

AwareDate(t) == [kind |-> "aware", t |-> t]

\* date_parser.parse(pub_date_elem.text): raises on garbage, else a datetime
date_parser_parse(d) ==
    IF d.kind \in {"naive", "aware"}
    THEN [raised |-> FALSE, tz |-> d.kind = "aware", t |-> d.t]
    ELSE [raised |-> TRUE, tz |-> FALSE, t |-> 0]

\* `pub_date < cutoff_date or pub_date > now` against offset-aware bounds:
\* comparing an offset-naive datetime raises TypeError.
CompareRaises(p) == ~p.tz

\* a variant that excludes the lower boundary (`<=` for `<`)
OutsideWindowStrict(p, cutoff_date, now) == p.t <= cutoff_date \/ p.t > now

OutsideWindow(p, cutoff_date, now) == p.t < cutoff_date \/ p.t > now

\* The body of the loop over channel.findall('item'):
\* which branch one item takes.
ItemVerdict(item, now) ==
    LET cutoff_date == now - Window
    IN  IF item.date.kind = "absent" \/ item.date.kind = "empty"
        THEN "removed_nodate"
        ELSE LET p == date_parser_parse(item.date)
             IN  IF p.raised THEN "removed_except"
                 ELSE IF CompareRaises(p) THEN "removed_except"
                 ELSE IF OutsideWindow(p, cutoff_date, now)
                      THEN "removed_window"
                      ELSE "kept"

\* which branches add one to stats["removed"]
CountsAsRemoved(v) ==
    v \in {"removed_nodate", "removed_window", "removed_except"}

\* A feed response: the request fails, the body is not well-formed XML, the
\* document has no <channel>, or it is an RSS channel with a list of items.
RssDoc(items) == [kind |-> "rss", items |-> items]
FetchError == [kind |-> "fetch_error", items |-> <<>>]
Malformed == [kind |-> "malformed", items |-> <<>>]
NoChannel == [kind |-> "no_channel", items |-> <<>>]

\* filter_rss_by_date(xml_content, days=14) at clock value `now`
filter_rss_by_date(doc, now) ==
    IF doc.kind = "malformed"
    THEN [raised |-> TRUE, xml |-> doc, error |-> FALSE,
          total |-> 0, kept |-> 0, removed |-> 0]
    ELSE IF doc.kind = "no_channel"
    THEN [raised |-> FALSE, xml |-> doc, error |-> TRUE,
          total |-> 0, kept |-> 0, removed |-> 0]
    ELSE LET IsKept(it) == ItemVerdict(it, now) = "kept"
             IsRemoved(it) == CountsAsRemoved(ItemVerdict(it, now))
         IN  [raised |-> FALSE,
              xml |-> RssDoc(SelectSeq(doc.items, IsKept)),
              error |-> FALSE,
              total |-> Len(doc.items),
              kept |-> CountIf(doc.items, IsKept),
              removed |-> CountIf(doc.items, IsRemoved)]

\* a variant that forgets the test of the link's text
HasLinkElement(item) == item.link # NoLink

\* `link_elem is not None and link_elem.text`
HasUrl(item) == item.link # NoLink /\ item.link # EmptyLink

\* `url not in seen_urls`: dictionary lookup by exact string
NotSeen(url, seen_urls) == url \notin seen_urls

\* the loop of deduplicate_articles
RECURSIVE DedupLoop(_, _, _)
DedupLoop(items, seen_urls, unique) ==
    IF items = <<>> THEN unique
    ELSE LET item == Head(items)
         IN  IF HasUrl(item) /\ NotSeen(item.link, seen_urls)
             THEN DedupLoop(Tail(items), seen_urls \cup {item.link},
                            Append(unique, item))
             ELSE DedupLoop(Tail(items), seen_urls, unique)

deduplicate_articles(items) ==
    LET uniq == DedupLoop(items, {}, <<>>)
    IN  [unique |-> uniq,
         total |-> Len(items),
         nunique |-> Len(uniq),
         duplicates |-> Len(items) - Len(uniq)]

\* items as the Collector holds them: the parsed element, identified by the
\* signal whose feed held it and its position there
Tag(items, s) ==
    [i \in 1..Len(items) |->
        [sig |-> s, idx |-> i, link |-> items[i].link, date |-> items[i].date]]

NoFile == [exists |-> FALSE, stale |-> FALSE, items |-> <<>>]
\* a consolidated document left by an earlier run of the same date
StaleFile ==
    [exists |-> TRUE, stale |-> TRUE,
     items |-> <<[sig |-> 0, idx |-> 1, link |-> "http://n/old",
                  date |-> AwareDate(Window + 1)]>>]

NoFilterCall ==
    [called |-> FALSE, doc |-> NoChannel, now |-> 0,
     res |-> filter_rss_by_date(NoChannel, 0)]
NoStats == [unique |-> <<>>, total |-> 0, nunique |-> 0, duplicates |-> 0]

(***************************************************************************)
(* Collector main(), lines 201-304.                                        *)
(***************************************************************************)

\* a variant whose try/except encloses the whole loop: the first failure
\* ends the iteration over the signals
CollectIterationAborting(resp, now) ==
    /\ collector_pc = "loop"
    /\ sig_idx <= NumSignals
    /\ feeds' = Append(feeds, resp)
    /\ LET r == filter_rss_by_date(resp, now)
           failed == resp.kind = "fetch_error" \/ r.raised
       IN  /\ flt' = IF resp.kind = "fetch_error" THEN flt
                     ELSE [called |-> TRUE, doc |-> resp, now |-> now,
                           res |-> r]
           /\ all_items' = IF ~failed /\ r.xml.kind = "rss"
                           THEN all_items \o Tag(r.xml.items, sig_idx)
                           ELSE all_items
           /\ query_results' = Append(query_results,
                  [signal |-> sig_idx,
                   success |-> ~failed /\ r.xml.kind = "rss",
                   kept |-> IF failed THEN 0 ELSE r.kept,
                   error |-> failed])
           /\ sig_idx' = IF failed THEN NumSignals + 1 ELSE sig_idx + 1
    /\ UNCHANGED <<collector_pc, unique_items, dedup_stats, consolidated>>
    /\ UNCHANGED nonCollectorVars

\* One iteration of `for signal_name, config in SEARCH_QUERIES.items()`:
\* the request, the date filter, the parse of the filtered document and the
\* bookkeeping, with the `except Exception` that ends a failed iteration.
CollectIteration(resp, now) ==
    /\ collector_pc = "loop"
    /\ sig_idx <= NumSignals
    /\ feeds' = Append(feeds, resp)
    /\ IF resp.kind = "fetch_error"
       THEN \* fetch_rss_feed raised: except branch
            /\ query_results' = Append(query_results,
                   [signal |-> sig_idx, success |-> FALSE, kept |-> 0,
                    error |-> TRUE])
            /\ UNCHANGED <<all_items, flt>>
       ELSE LET r == filter_rss_by_date(resp, now)
            IN  /\ flt' = [called |-> TRUE, doc |-> resp, now |-> now,
                           res |-> r]
                /\ IF r.raised
                   THEN \* ET.fromstring raised: except branch
                        /\ query_results' = Append(query_results,
                               [signal |-> sig_idx, success |-> FALSE,
                                kept |-> 0, error |-> TRUE])
                        /\ UNCHANGED all_items
                   ELSE IF r.xml.kind = "rss"
                   THEN /\ all_items' = all_items \o Tag(r.xml.items, sig_idx)
                        /\ query_results' = Append(query_results,
                               [signal |-> sig_idx, success |-> TRUE,
                                kept |-> r.kept, error |-> FALSE])
                   ELSE \* channel is None
                        /\ query_results' = Append(query_results,
                               [signal |-> sig_idx, success |-> FALSE,
                                kept |-> 0, error |-> FALSE])
                        /\ UNCHANGED all_items
    /\ sig_idx' = sig_idx + 1
    /\ UNCHANGED <<collector_pc, unique_items, dedup_stats, consolidated>>
    /\ UNCHANGED nonCollectorVars

\* the feeds the Collector's signals receive in this model
CollectorItems ==
    { [link |-> "http://n/u1", date |-> AwareDate(Window + 1)],
      [link |-> "http://n/u2", date |-> AwareDate(Window + 1)],
      [link |-> "http://n/u1", date |-> AwareDate(0)] }
CollectorResponses ==
    {FetchError, Malformed, NoChannel}
      \cup {RssDoc(s) : s \in SeqsUpTo(CollectorItems, MaxFeedLen)}
CollectorNow == Window + 1

CollectSignal ==
    \E resp \in CollectorResponses : CollectIteration(resp, CollectorNow)

\* the loop is exhausted
EndOfSignals ==
    /\ collector_pc = "loop"
    /\ sig_idx > NumSignals
    /\ collector_pc' = "dedup"
    /\ UNCHANGED <<sig_idx, feeds, all_items, query_results, unique_items,
                   dedup_stats, consolidated, flt>>
    /\ UNCHANGED nonCollectorVars

\* `unique_items, dedup_stats = deduplicate_articles(all_items)`
Deduplicate ==
    /\ collector_pc = "dedup"
    /\ LET d == deduplicate_articles(all_items)
       IN  /\ unique_items' = d.unique
           /\ dedup_stats' = d
    /\ collector_pc' = "write"
    /\ UNCHANGED <<sig_idx, feeds, all_items, query_results, consolidated,
                   flt>>
    /\ UNCHANGED nonCollectorVars

\* `if unique_items:` build and write articles_consolidated.xml, else only
\* print; then the summary (sums over query_results, no division).
WriteConsolidated ==
    /\ collector_pc = "write"
    /\ consolidated' =
          IF unique_items # <<>>
          THEN [exists |-> TRUE, stale |-> FALSE, items |-> unique_items]
          ELSE consolidated
    /\ collector_pc' = "done"
    /\ UNCHANGED <<sig_idx, feeds, all_items, query_results, unique_items,
                   dedup_stats, flt>>
    /\ UNCHANGED nonCollectorVars

\* a direct call of filter_rss_by_date on a document
FilterCall ==
    /\ collector_pc = "idle"
    /\ ~flt.called
    /\ flt' = [flt EXCEPT !.called = TRUE,
                          !.res = filter_rss_by_date(flt.doc, flt.now)]
    /\ UNCHANGED <<collector_pc, sig_idx, feeds, all_items, query_results,
                   unique_items, dedup_stats, consolidated>>
    /\ UNCHANGED nonCollectorVars

(***************************************************************************)
(* ======================= CONTENT FETCHER ==============================  *)
(* processors/google_news/2_download_html.py                               *)
(***************************************************************************)

MAX_WORKERS == 4

\* A domain name is the sequence of its dot-separated labels.
ALLOWED_DOMAINS ==
    { <<"lapresse", "ca">>, <<"ledevoir", "com">>,
      <<"journaldemontreal", "com">>, <<"journaldequebec", "com">>,
      <<"tvanouvelles", "ca">>, <<"radio-canada", "ca">>,
      <<"ici", "radio-canada", "ca">>, <<"rcinet", "ca">>,
      <<"lactualite", "com">>, <<"ledroit", "com">>, <<"lesoleil", "com">>,
      <<"latribune", "ca">>, <<"nouvelliste", "ca">>,
      <<"lequotidien", "com">>, <<"lavoixdelest", "ca">>,
      <<"noovo", "info">>,
      <<"quebec", "ca">>, <<"gouv", "qc", "ca">>, <<"assnat", "qc", "ca">>,
      <<"dgeq", "org">>,
      <<"oiiq", "org">>, <<"cmq", "org">>, <<"barreau", "qc", "ca">>,
      <<"opq", "gouv", "qc", "ca">>,
      <<"csn", "qc", "ca">>, <<"ftq", "qc", "ca">>, <<"fiq", "qc", "ca">>,
      <<"scfp", "qc", "ca">>, <<"sqees-298", "qc", "ca">>,
      <<"ville", "montreal", "qc", "ca">>, <<"ville", "quebec", "qc", "ca">>,
      <<"stm", "info">>,
      <<"monvicto", "com">>, <<"lienmultimedia", "com">>,
      <<"francopresse", "ca">>,
      <<"cbc", "ca">>, <<"theglobeandmail", "com">>,
      <<"nationalpost", "com">>, <<"thestar", "com">>,
      <<"globalnews", "ca">>, <<"ctv", "ca">>, <<"ctvnews", "ca">> }

\* A URL: whether it has an authority part ("//host"), the host's labels as
\* written, and whether an explicit port follows the host.
Url(host) == [authority |-> TRUE, host |-> host, port |-> FALSE]
UrlWithPort(host) == [authority |-> TRUE, host |-> host, port |-> TRUE]
AboutBlank == [authority |-> FALSE, host |-> <<>>, port |-> FALSE]

\* the last label of a netloc that ends with ":8080"
PortSuffixed(label) ==
    CASE label = "ca" -> "ca:8080"
      [] label = "com" -> "com:8080"
      [] OTHER -> label

\* urlparse(url).netloc: the authority text, host and port together
urlparse_netloc(url) ==
    IF ~url.authority THEN <<>>
    ELSE IF url.port
    THEN [i \in 1..Len(url.host) |->
             IF i = Len(url.host) THEN PortSuffixed(url.host[i])
             ELSE url.host[i]]
    ELSE url.host

\* str.lower() on one label
LowerLabel(label) ==
    CASE label = "WWW" -> "www"
      [] label = "LeDevoir" -> "ledevoir"
      [] label = "CA" -> "ca"
      [] OTHER -> label

Lower(domain) == [i \in 1..Len(domain) |-> LowerLabel(domain[i])]

\* domain.startswith('www.') and domain[4:]
StartsWithWww(domain) == Len(domain) >= 2 /\ domain[1] = "www"
StripWww(domain) == IF StartsWithWww(domain) THEN Tail(domain) ELSE domain

\* domain.endswith('.' + suffix), suffix a sequence of labels
EndsWithDot(domain, suffix) ==
    /\ Len(domain) > Len(suffix)
    /\ SubSeq(domain, Len(domain) - Len(suffix) + 1, Len(domain)) = suffix

is_quebec_canadian_domain(url) ==
    LET domain == StripWww(Lower(urlparse_netloc(url)))
    IN  \/ EndsWithDot(domain, <<"ca">>)
        \/ domain \in ALLOWED_DOMAINS
        \/ \E allowed \in ALLOWED_DOMAINS : EndsWithDot(domain, allowed)

\* `final_url.split('/')[2]`: IndexError unless the URL has "//"
SplitHostRaises(url) == ~url.authority

\* sanitize_filename(url, article_id): "article_%04d.html" of the id alone
sanitize_filename(url, article_id) == article_id

\* get_counter(): counter[0] += 1; return counter[0]
\* a variant that returns the counter without advancing it
get_counter_stuck(c) == c

get_counter(c) == c + 1

\* `tasks = [(i+1, len(articles), article, output_dir, get_counter()) ...]`
RECURSIVE BuildTasks(_, _, _, _)
BuildTasks(arts, i, c, acc) ==
    IF i > Len(arts) THEN acc
    ELSE BuildTasks(arts, i + 1, get_counter(c),
                    Append(acc, [i |-> i, total |-> Len(arts),
                                 article |-> arts[i],
                                 article_counter |-> get_counter(c)]))

\* stored content
Absent == [state |-> "absent", item |-> 0]
Stale == [state |-> "stale", item |-> 0]
Page(i, url) == [state |-> "page", item |-> i, url |-> url]
Partial(i) == [state |-> "partial", item |-> i]

\* what one call of download_html_selenium meets: the page loads and the
\* browser ends at final_url; the load times out or another call raises
\* before the write; or write_text raises after opening the file
LoadOk(url) == [kind |-> "ok", final_url |-> url]
LoadFails == [kind |-> "fail_load", final_url |-> AboutBlank]
WriteFails == [kind |-> "fail_write", final_url |-> AboutBlank]

\* download_html_selenium(driver, url, output_file, timeout=15):
\* the pair it returns
download_html_selenium(outcome) ==
    IF outcome.kind = "ok"
    THEN [success |-> TRUE, final_url |-> outcome.final_url]
    ELSE [success |-> FALSE, final_url |-> AboutBlank]

\* ... and what it leaves in output_file
FileAfterDownload(old, i, outcome) ==
    CASE outcome.kind = "ok" -> Page(i, outcome.final_url)
      [] outcome.kind = "fail_write" -> Partial(i)
      [] OTHER -> old

NewTask ==
    [st |-> "queued", driver |-> "none", dl_success |-> FALSE,
     final_url |-> AboutBlank, result |-> "none", loads |-> 0, quits |-> 0]

Running(t) == t.st \in {"created", "downloaded", "decided"}
NumRunning == Cardinality({i \in 1..Len(task) : Running(task[i])})
TasksSubmitted == fetcher_pc \in {"collect", "aborting"}

\* main, lines 162-170: the input file is not there
FetcherNoInput ==
    /\ fetcher_pc = "start"
    /\ ~fetch_input
    /\ fetcher_pc' = "noinput"
    /\ UNCHANGED <<articles, tasks, counter, task, collected,
                   filtered_articles, counts, html_files, mapping_file,
                   dir_stale>>
    /\ UNCHANGED <<fetch_input, nonFetcherVars>>

\* main, lines 180-207: read the rows, number the tasks, submit them
PrepareTasks ==
    /\ fetcher_pc = "start"
    /\ fetch_input
    /\ tasks' = BuildTasks(articles, 1, counter, <<>>)
    /\ counter' = counter + Len(articles)
    /\ task' = [i \in 1..Len(articles) |-> NewTask]
    /\ fetcher_pc' = "collect"
    /\ UNCHANGED <<articles, collected, filtered_articles, counts,
                   html_files, mapping_file, dir_stale>>
    /\ UNCHANGED <<fetch_input, nonFetcherVars>>

\* a pool thread takes the oldest queued task and runs create_driver(),
\* which returns a new browser or raises
CreateDriver(i, created) ==
    /\ TasksSubmitted
    /\ i \in 1..Len(task)
    /\ task[i].st = "queued"
    /\ \A j \in 1..(i - 1) : task[j].st # "queued"
    /\ NumRunning < MAX_WORKERS
    /\ task' = [task EXCEPT ![i] =
                  IF created
                  THEN [@ EXCEPT !.st = "created", !.driver = "live"]
                  ELSE [@ EXCEPT !.st = "finished", !.result = "raised"]]
    /\ UNCHANGED <<fetcher_pc, articles, tasks, counter, collected,
                   filtered_articles, counts, html_files, mapping_file,
                   dir_stale>>
    /\ UNCHANGED <<fetch_input, nonFetcherVars>>

\* process_article_download, lines 123-131: the one call of
\* download_html_selenium
Download(i, outcome) ==
    /\ i \in 1..Len(task)
    /\ task[i].st = "created"
    /\ LET r == download_html_selenium(outcome)
           name == sanitize_filename(tasks[i].article.url,
                                     tasks[i].article_counter)
       IN  /\ task' = [task EXCEPT ![i] =
                         [@ EXCEPT !.st = "downloaded",
                                   !.dl_success = r.success,
                                   !.final_url = r.final_url,
                                   !.loads = @ + 1]]
           /\ html_files' =
                 [html_files EXCEPT ![name] =
                     FileAfterDownload(@, i, outcome)]
    /\ UNCHANGED <<fetcher_pc, articles, tasks, counter, collected,
                   filtered_articles, counts, mapping_file, dir_stale>>
    /\ UNCHANGED <<fetch_input, nonFetcherVars>>

\* process_article_download, lines 133-151: the value returned, or the
\* exception raised, and the file removed on the drop path
DecisionOf(t, unlink_ok) ==
    IF t.dl_success
    THEN IF is_quebec_canadian_domain(t.final_url) THEN "success"
         ELSE IF SplitHostRaises(t.final_url) THEN "raised"
         ELSE IF ~unlink_ok THEN "raised"
         ELSE "skipped"
    ELSE "failed"

Decide(i, unlink_ok) ==
    /\ i \in 1..Len(task)
    /\ task[i].st = "downloaded"
    /\ LET d == DecisionOf(task[i], unlink_ok)
           name == sanitize_filename(tasks[i].article.url,
                                     tasks[i].article_counter)
       IN  /\ task' = [task EXCEPT ![i] =
                         [@ EXCEPT !.st = "decided", !.result = d]]
           /\ html_files' =
                 IF d = "skipped"
                 THEN [html_files EXCEPT ![name] = Absent]
                 ELSE html_files
    /\ UNCHANGED <<fetcher_pc, articles, tasks, counter, collected,
                   filtered_articles, counts, mapping_file, dir_stale>>
    /\ UNCHANGED <<fetch_input, nonFetcherVars>>

\* a variant of the finally block that releases the browser only when the
\* try block returned
FinallyQuitOnReturn(t) ==
    IF t.result = "raised"
    THEN [t EXCEPT !.st = "finished"]
    ELSE [t EXCEPT !.st = "finished", !.driver = "quit", !.quits = @ + 1]

\* `finally: driver.quit()`
FinallyQuit(t) ==
    [t EXCEPT !.st = "finished", !.driver = "quit", !.quits = @ + 1]

Quit(i) ==
    /\ i \in 1..Len(task)
    /\ task[i].st = "decided"
    /\ task' = [task EXCEPT ![i] = FinallyQuit(@)]
    /\ UNCHANGED <<fetcher_pc, articles, tasks, counter, collected,
                   filtered_articles, counts, html_files, mapping_file,
                   dir_stale>>
    /\ UNCHANGED <<fetch_input, nonFetcherVars>>

\* main, lines 210-222: one turn of `for future in as_completed(...)`;
\* future.result() re-raises what the task raised
Collect(i) ==
    /\ fetcher_pc = "collect"
    /\ i \in 1..Len(task)
    /\ i \notin collected
    /\ task[i].st = "finished"
    /\ collected' = collected \cup {i}
    /\ IF task[i].result = "raised"
       THEN /\ fetcher_pc' = "aborting"
            /\ UNCHANGED <<filtered_articles, counts>>
       ELSE /\ fetcher_pc' = fetcher_pc
            /\ IF task[i].result = "success"
               THEN /\ counts' = [counts EXCEPT !.success = @ + 1]
                    /\ filtered_articles' = Append(filtered_articles,
                          [item |-> i, article |-> tasks[i].article,
                           html_file |-> sanitize_filename(
                               tasks[i].article.url,
                               tasks[i].article_counter),
                           final_url |-> task[i].final_url])
               ELSE IF task[i].result = "skipped"
               THEN /\ counts' = [counts EXCEPT !.skipped = @ + 1]
                    /\ UNCHANGED filtered_articles
               ELSE /\ counts' = [counts EXCEPT !.failed = @ + 1]
                    /\ UNCHANGED filtered_articles
    /\ UNCHANGED <<articles, tasks, counter, task, html_files, mapping_file,
                   dir_stale>>
    /\ UNCHANGED <<fetch_input, nonFetcherVars>>

\* main, lines 224-241: every future was taken; write articles_mapping.csv
\* and print the summary
WriteMapping ==
    /\ fetcher_pc = "collect"
    /\ collected = 1..Len(task)
    /\ mapping_file' = [exists |-> TRUE, stale |-> FALSE,
                        rows |-> filtered_articles]
    /\ fetcher_pc' = "done"
    /\ UNCHANGED <<articles, tasks, counter, task, collected,
                   filtered_articles, counts, html_files, dir_stale>>
    /\ UNCHANGED <<fetch_input, nonFetcherVars>>

\* the exception leaves the `with ThreadPoolExecutor` block: its __exit__
\* waits for every submitted task, then main ends with the exception
AbortAfterWorkers ==
    /\ fetcher_pc = "aborting"
    /\ \A i \in 1..Len(task) : task[i].st = "finished"
    /\ fetcher_pc' = "crashed"
    /\ UNCHANGED <<articles, tasks, counter, task, collected,
                   filtered_articles, counts, html_files, mapping_file,
                   dir_stale>>
    /\ UNCHANGED <<fetch_input, nonFetcherVars>>

\* the initial URLs of the rows: the aggregator's redirector, or a URL that
\* would itself pass the allow-list
GoogleNewsUrl == Url(<<"news", "google", "com">>)
InitialUrls == {GoogleNewsUrl, Url(<<"exemple", "ca">>)}

\* the final URLs tried on is_quebec_canadian_domain
FinalUrls ==
    { Url(<<"exemple", "ca">>), Url(<<"exemple", "com">>),
      Url(<<"exemple", "CA">>), Url(<<"www", "exemple", "ca">>),
      Url(<<"ledevoir", "com">>), Url(<<"www", "ledevoir", "com">>),
      Url(<<"WWW", "LeDevoir", "com">>), Url(<<"m", "ledevoir", "com">>),
      Url(<<"xledevoir", "com">>),
      Url(<<"ledevoir", "com", "evil", "org">>),
      Url(<<"www", "ca">>), Url(<<"ca">>), Url(<<"www">>),
      Url(<<"ici", "radio-canada", "ca">>), Url(<<"news", "google", "com">>),
      UrlWithPort(<<"exemple", "ca">>), UrlWithPort(<<"ledevoir", "com">>),
      AboutBlank }

\* the outcomes met by the tasks of a batch in this model
BatchOutcomes ==
    { LoadOk(Url(<<"exemple", "ca">>)), LoadOk(Url(<<"exemple", "com">>)),
      LoadOk(AboutBlank), LoadFails, WriteFails }
AllOutcomes == {LoadOk(u) : u \in FinalUrls} \cup {LoadFails, WriteFails}

InitialFile == IF dir_stale THEN Stale ELSE Absent

(***************************************************************************)
(* ======================= RELEVANCE FILTER =============================  *)
(* processors/google_news/2_filter_with_llm.py                             *)
(***************************************************************************)

PERTINENCE_THRESHOLD == 4

\* the characters of the classifier's response text in this model
Chars == {" ", "-", "+", "_", "0", "3", "5", "6", "x"}

IsDigit(c) == c \in {"0", "3", "5", "6"}
DigitValue(c) ==
    CASE c = "0" -> 0 [] c = "3" -> 3 [] c = "5" -> 5 [] c = "6" -> 6
      [] OTHER -> 0

\* str.strip(): drop the white space at both ends
RECURSIVE LStrip(_)
LStrip(s) == IF s # <<>> /\ Head(s) = " " THEN LStrip(Tail(s)) ELSE s
RECURSIVE RStrip(_)
RStrip(s) ==
    IF s # <<>> /\ s[Len(s)] = " " THEN RStrip(SubSeq(s, 1, Len(s) - 1))
    ELSE s
Strip(s) == RStrip(LStrip(s))

\* the digits of an int() literal: digits, single underscores only between
\* two digits
RECURSIVE DigitsOk(_)
DigitsOk(s) ==
    IF s = <<>> THEN FALSE
    ELSE IF ~IsDigit(Head(s)) THEN FALSE
    ELSE IF Len(s) = 1 THEN TRUE
    ELSE IF s[2] = "_" THEN DigitsOk(Tail(Tail(s)))
    ELSE DigitsOk(Tail(s))

RECURSIVE DigitsValue(_, _)
DigitsValue(s, acc) ==
    IF s = <<>> THEN acc
    ELSE IF Head(s) = "_" THEN DigitsValue(Tail(s), acc)
    ELSE DigitsValue(Tail(s), 10 * acc + DigitValue(Head(s)))

\* int(text): the value, or ValueError
int(text) ==
    LET s == Strip(text)
        signed == s # <<>> /\ Head(s) \in {"-", "+"}
        digits == IF signed THEN Tail(s) ELSE s
    IN  IF ~DigitsOk(digits) THEN [raised |-> TRUE, value |-> 0]
        ELSE [raised |-> FALSE,
              value |-> IF signed /\ Head(s) = "-"
                        THEN 0 - DigitsValue(digits, 0)
                        ELSE DigitsValue(digits, 0)]

\* what model.generate_content and response.text do for one item: raise, or
\* give a text
CallRaises == [kind |-> "raise", text |-> <<>>]
Text(t) == [kind |-> "text", text |-> t]

\* a variant of the range test that forgets the lower end
AboveRange(score) == score > 5

\* `if score < 1 or score > 5`
OutOfRange(score) == score < 1 \/ score > 5

\* evaluate_article, the try block: the score returned, or an exception
TryEvaluate(response) ==
    IF response.kind = "raise" THEN [raised |-> TRUE, value |-> 0]
    ELSE LET score == int(Strip(response.text))
         IN  IF score.raised THEN [raised |-> TRUE, value |-> 0]
             ELSE IF OutOfRange(score.value)
             THEN [raised |-> FALSE, value |-> 3]
             ELSE [raised |-> FALSE, value |-> score.value]

\* evaluate_article: `except Exception` turns every exception into 3
evaluate_article(response) ==
    LET r == TryEvaluate(response)
    IN  IF r.raised THEN [raised |-> FALSE, value |-> 3] ELSE r

\* the columns the Feed Parser writes to articles_raw.csv, and the
\* fieldnames of the DictWriter of articles_filtered.csv
ParserFields == {"signal", "titre", "source", "url", "date"}
FilteredFieldnames == {"signal", "titre", "source", "url", "pertinence_llm"}

\* csv.DictWriter (extrasaction='raise'): ValueError for a row with a key
\* that is not a fieldname
WriterRaises(row_fields) == ~(row_fields \subseteq FilteredFieldnames)

NoOutput == [exists |-> FALSE, stale |-> FALSE, rows |-> <<>>]
StaleOutput == [exists |-> TRUE, stale |-> TRUE, rows |-> <<>>]

\* main, lines 83-112: the input check, mkdir, initialize_gemini, the rows
RelevanceStart ==
    /\ relevance_pc = "start"
    /\ IF ~rel_input.exists THEN relevance_pc' = "noinput"
       ELSE IF ~rel_key THEN relevance_pc' = "exited"
       ELSE relevance_pc' = "eval"
    /\ UNCHANGED <<rel_key, rel_input, rel_idx, rel_results, rel_filtered,
                   scores_distribution, rel_output>>
    /\ UNCHANGED nonRelevanceVars

\* main, lines 114-131: one turn of `for i, article in enumerate(...)`
EvaluateNext ==
    /\ relevance_pc = "eval"
    /\ rel_idx <= Len(rel_input.rows)
    /\ LET r == evaluate_article(rel_input.rows[rel_idx])
           score == r.value
       IN  /\ rel_results' = Append(rel_results, r)
           /\ IF r.raised \/ score \notin DOMAIN scores_distribution
              THEN /\ relevance_pc' = "raised"
                   /\ UNCHANGED <<rel_idx, rel_filtered,
                                  scores_distribution>>
              ELSE /\ relevance_pc' = relevance_pc
                   /\ scores_distribution' =
                         [scores_distribution EXCEPT ![score] = @ + 1]
                   /\ rel_filtered' =
                         IF score >= PERTINENCE_THRESHOLD
                         THEN Append(rel_filtered,
                                     [row |-> rel_idx,
                                      pertinence_llm |-> score])
                         ELSE rel_filtered
                   /\ rel_idx' = rel_idx + 1
    /\ UNCHANGED <<rel_key, rel_input, rel_output>>
    /\ UNCHANGED nonRelevanceVars

\* main, lines 133-156: write articles_filtered.csv when a row was kept,
\* then print the summary with its percentage of the row count
RelevanceFinish ==
    /\ relevance_pc = "eval"
    /\ rel_idx > Len(rel_input.rows)
    /\ IF rel_filtered # <<>>
       THEN IF WriterRaises(rel_input.fields \cup {"pertinence_llm"})
            THEN /\ rel_output' = [exists |-> TRUE, stale |-> FALSE,
                                   rows |-> <<>>]
                 /\ relevance_pc' = "raised"
            ELSE /\ rel_output' = [exists |-> TRUE, stale |-> FALSE,
                                   rows |-> rel_filtered]
                 /\ relevance_pc' = "done"
       ELSE /\ rel_output' = rel_output
            /\ relevance_pc' =
                  IF Len(rel_input.rows) = 0 THEN "raised" ELSE "done"
    /\ UNCHANGED <<rel_key, rel_input, rel_idx, rel_results, rel_filtered,
                   scores_distribution>>
    /\ UNCHANGED nonRelevanceVars

\* the responses met by the rows of a batch in this model
BatchResponses ==
    {CallRaises, Text(<<"5">>), Text(<<"3">>), Text(<<"6">>), Text(<<"x">>)}
\* the responses tried on evaluate_article
AllResponses ==
    {CallRaises} \cup {Text(t) : t \in SeqsUpTo(Chars, MaxTextLen)}

(***************************************************************************)
(* =========================== EXTRACTOR ================================  *)
(* processors/google_news/3_build_warehouse.py                             *)
(***************************************************************************)

None == "<None>"
SomeText == "texte de l'article"

\* what the stored content of one row does: the file is missing; read_text
\* raises; trafilatura.extract raises, returns None, returns '', or
\* returns a text
ContentCases ==
    {"missing", "read_raises", "extract_raises", "extract_none",
     "extract_empty", "text"}

\* trafilatura.extract(html_content) where it returns
trafilatura_extract(case) ==
    CASE case = "extract_none" -> None
      [] case = "extract_empty" -> ""
      [] OTHER -> SomeText

\* a variant that keeps whatever the extraction returned
KeepValue(value) == value

\* `... or ""`
OrEmpty(value) == IF value = None \/ value = "" THEN "" ELSE value

\* main, lines 50-64: contenu for one row
ContenuOf(case) ==
    IF case = "missing" THEN ""
    ELSE IF case \in {"read_raises", "extract_raises"} THEN ""
    ELSE OrEmpty(trafilatura_extract(case))

\* main, lines 14-39: the input check, mkdir, the rows
ExtractorStart ==
    /\ extractor_pc = "start"
    /\ extractor_pc' = IF wh_mapping.exists THEN "loop" ELSE "noinput"
    /\ UNCHANGED <<wh_mapping, wh_idx, warehouse_data, warehouse_file>>
    /\ UNCHANGED nonExtractorVars

\* main, lines 45-72: one turn of `for i, article in enumerate(articles, 1)`
ExtractNext ==
    /\ extractor_pc = "loop"
    /\ wh_idx <= Len(wh_mapping.rows)
    /\ warehouse_data' =
          Append(warehouse_data,
                 [row |-> wh_idx,
                  contenu |-> ContenuOf(wh_mapping.rows[wh_idx])])
    /\ wh_idx' = wh_idx + 1
    /\ UNCHANGED <<extractor_pc, wh_mapping, warehouse_file>>
    /\ UNCHANGED nonExtractorVars

\* main, lines 76-101: write the warehouse file, print the summary
WriteWarehouse ==
    /\ extractor_pc = "loop"
    /\ wh_idx > Len(wh_mapping.rows)
    /\ warehouse_file' = [exists |-> TRUE, stale |-> FALSE,
                          rows |-> warehouse_data]
    /\ extractor_pc' = "done"
    /\ UNCHANGED <<wh_mapping, wh_idx, warehouse_data>>
    /\ UNCHANGED nonExtractorVars


(***************************************************************************)
(* ======================== ENTITY EXTRACTOR ============================  *)
(* processors/google_news/4_extract_organizations.py                       *)
(*                                                                         *)
(* A response text is a sequence of tokens: the fence markers, the JSON    *)
(* punctuation, the double quote, the line break, the space, and words     *)
(* (runs of ordinary characters).                                          *)
(***************************************************************************)
\* (the three backquotes are written as three apostrophes in this model)
FENCE_JSON == "'''json"
FENCE == "'''"
QUOTE == "\""
NL == "\n"
SP == " "

IsSpace(tok) == tok \in {SP, NL}

\* str.strip() on a token sequence
RECURSIVE TextLStrip(_)
TextLStrip(s) ==
    IF s # <<>> /\ IsSpace(Head(s)) THEN TextLStrip(Tail(s)) ELSE s
RECURSIVE TextRStrip(_)
TextRStrip(s) ==
    IF s # <<>> /\ IsSpace(s[Len(s)])
    THEN TextRStrip(SubSeq(s, 1, Len(s) - 1))
    ELSE s
TextStrip(s) == TextRStrip(TextLStrip(s))

\* lines 108-116: drop the markdown fence, strip again
StripFence(text) ==
    LET t1 == IF text # <<>> /\ Head(text) = FENCE_JSON
              THEN Tail(text) ELSE text
        t2 == IF t1 # <<>> /\ Head(t1) = FENCE THEN Tail(t1) ELSE t1
        t3 == IF t2 # <<>> /\ t2[Len(t2)] = FENCE
              THEN SubSeq(t2, 1, Len(t2) - 1) ELSE t2
    IN  TextStrip(t3)

\* JSON values: a string (its tokens), an object (a function from key
\* strings to values), a list
JStr(toks) == [t |-> "str", v |-> toks]
JObj(f) == [t |-> "obj", v |-> f]
JList(items) == [t |-> "list", v |-> items]
\* the other JSON values: an integer, true or false, null
JInt(n) == [t |-> "int", v |-> n]
JBool(b) == [t |-> "bool", v |-> b]
JNull == [t |-> "null", v |-> <<>>]

\* the tokens that are a JSON value by themselves
LiteralTokens == {"true", "false", "null", "0", "3", "4", "5"}
LiteralValue(tok) ==
    CASE tok = "true" -> JBool(TRUE)
      [] tok = "false" -> JBool(FALSE)
      [] tok = "null" -> JNull
      [] tok = "0" -> JInt(0)
      [] tok = "3" -> JInt(3)
      [] tok = "4" -> JInt(4)
      [] OTHER -> JInt(5)

ParseError == [ok |-> FALSE, value |-> JStr(<<>>), rest |-> <<>>]
Parsed(value, rest) == [ok |-> TRUE, value |-> value, rest |-> rest]

\* a string: from the opening quote to the next quote; a raw line break
\* inside is an invalid control character
RECURSIVE ScanString(_, _)
ScanString(s, acc) ==
    IF s = <<>> THEN ParseError
    ELSE IF Head(s) = QUOTE THEN Parsed(JStr(acc), Tail(s))
    ELSE IF Head(s) = NL THEN ParseError
    ELSE ScanString(Tail(s), Append(acc, Head(s)))

ParseString(s) ==
    IF s # <<>> /\ Head(s) = QUOTE THEN ScanString(Tail(s), <<>>)
    ELSE ParseError

RECURSIVE ParseValue(_)
RECURSIVE ParseMembers(_, _)
RECURSIVE ParseElements(_, _)

\* the members of an object after "{" or ",": "key" : value, then "," or "}"
ParseMembers(s, members) ==
    LET k == ParseString(TextLStrip(s))
    IN  IF ~k.ok THEN ParseError
        ELSE LET c == TextLStrip(k.rest)
             IN  IF c = <<>> \/ Head(c) # ":" THEN ParseError
                 ELSE LET v == ParseValue(Tail(c))
                      IN  IF ~v.ok THEN ParseError
                          ELSE LET m == (k.value.v :> v.value) @@ members
                                   r == v.rest
                               IN  IF r = <<>> THEN ParseError
                                   ELSE IF Head(r) = "}"
                                   THEN Parsed(JObj(m), Tail(r))
                                   ELSE IF Head(r) = ","
                                   THEN ParseMembers(Tail(r), m)
                                   ELSE ParseError

\* the elements of a list after "[" or ",": value, then "," or "]"
ParseElements(s, items) ==
    LET v == ParseValue(s)
    IN  IF ~v.ok THEN ParseError
        ELSE LET r == v.rest
                 more == Append(items, v.value)
             IN  IF r = <<>> THEN ParseError
                 ELSE IF Head(r) = "]" THEN Parsed(JList(more), Tail(r))
                 ELSE IF Head(r) = "," THEN ParseElements(Tail(r), more)
                 ELSE ParseError

\* one value with the white space around it
ParseValue(s) ==
    LET t == TextLStrip(s)
        skip(p) == IF p.ok THEN Parsed(p.value, TextLStrip(p.rest)) ELSE p
    IN  IF t = <<>> THEN ParseError
        ELSE IF Head(t) = QUOTE THEN skip(ParseString(t))
        ELSE IF Head(t) = "{"
        THEN IF TextLStrip(Tail(t)) # <<>> /\ Head(TextLStrip(Tail(t))) = "}"
             THEN skip(Parsed(JObj(<<>>), Tail(TextLStrip(Tail(t)))))
             ELSE skip(ParseMembers(Tail(t), <<>>))
        ELSE IF Head(t) = "["
        THEN IF TextLStrip(Tail(t)) # <<>> /\ Head(TextLStrip(Tail(t))) = "]"
             THEN skip(Parsed(JList(<<>>), Tail(TextLStrip(Tail(t)))))
             ELSE skip(ParseElements(Tail(t), <<>>))
        ELSE IF Head(t) \in LiteralTokens
        THEN skip(Parsed(LiteralValue(Head(t)), Tail(t)))
        ELSE ParseError

\* json.loads(text): the value, or JSONDecodeError (also for extra data)
json_loads(text) ==
    LET p == ParseValue(text)
    IN  IF p.ok /\ p.rest = <<>> THEN p ELSE ParseError

\* the re.sub call of line 128: a double quote followed by a run of white
\* space that holds a line break becomes the quote and one space
RECURSIVE SpaceRun(_)
SpaceRun(s) ==
    IF s # <<>> /\ IsSpace(Head(s)) THEN <<Head(s)>> \o SpaceRun(Tail(s))
    ELSE <<>>

HasLineBreak(run) == \E i \in 1..Len(run) : run[i] = NL

RECURSIVE re_sub(_)
re_sub(s) ==
    IF s = <<>> THEN <<>>
    ELSE IF Head(s) = QUOTE /\ HasLineBreak(SpaceRun(Tail(s)))
    THEN <<QUOTE, SP>>
             \o re_sub(SubSeq(s, 2 + Len(SpaceRun(Tail(s))), Len(s)))
    ELSE <<Head(s)>> \o re_sub(Tail(s))

\* dict.get(key, default) on a parsed object
DictGet(obj, key, default) ==
    IF key \in DOMAIN obj.v THEN obj.v[key] ELSE default

K_resume_article == <<"resume_article">>
K_organisations == <<"organisations">>

\* what extract_organizations_and_summary gives back, with the number of
\* json.loads calls it made and what it appended to debug_json_error.txt
EmptyResult(attempts, debug) ==
    [raised |-> FALSE, resume_article |-> JStr(<<>>),
     organisations |-> JList(<<>>), attempts |-> attempts, debug |-> debug]

\* lines 145-148: AttributeError (caught by the outer except) when the
\* parsed value is no object
ResultOf(data, attempts) ==
    IF data.t # "obj" THEN EmptyResult(attempts, <<>>)
    ELSE [raised |-> FALSE,
          resume_article |-> DictGet(data, K_resume_article, JStr(<<>>)),
          organisations |-> DictGet(data, K_organisations, JList(<<>>)),
          attempts |-> attempts, debug |-> <<>>]

\* what model.generate_content and response.text do for one record
EntityCallRaises == [kind |-> "raise", text |-> <<>>]
EntityText(t) == [kind |-> "text", text |-> t]

\* a variant that lets the second JSONDecodeError leave the function
SecondFailureRaises(cleaned, debug_ok) ==
    [raised |-> TRUE, resume_article |-> JStr(<<>>),
     organisations |-> JList(<<>>), attempts |-> 2, debug |-> <<>>]

\* lines 134-143: append the text to debug_json_error.txt and return the
\* empty result; when the file cannot be opened the outer except returns
\* the same result
SecondFailure(cleaned, debug_ok) ==
    EmptyResult(2, IF debug_ok THEN <<cleaned>> ELSE <<>>)

\* extract_organizations_and_summary(model, titre, contenu); debug_ok:
\* debug_json_error.txt can be opened for appending
extract_organizations_and_summary(response, debug_ok) ==
    IF response.kind = "raise" THEN EmptyResult(0, <<>>)
    ELSE LET response_text == StripFence(TextStrip(response.text))
             first == json_loads(response_text)
         IN  IF first.ok THEN ResultOf(first.value, 1)
             ELSE LET cleaned == re_sub(response_text)
                      second == json_loads(cleaned)
                  IN  IF second.ok THEN ResultOf(second.value, 2)
                      ELSE SecondFailure(cleaned, debug_ok)


K_nom == <<"nom">>
K_type == <<"type">>
K_action == <<"action">>
K_enjeu == <<"enjeu">>
K_citation == <<"citation">>
K_resume == <<"resume">>

\* bool(value) for a parsed value
Truthy(value) ==
    CASE value.t = "obj" -> DOMAIN value.v # {}
      [] value.t = "int" -> value.v # 0
      [] value.t = "bool" -> value.v
      [] value.t = "null" -> FALSE
      [] OTHER -> Len(value.v) > 0

\* what `for org_data in extraction["organisations"]` iterates over: the
\* items of a list, the characters of a string, the keys of an object
ItemsOf(value) ==
    CASE value.t = "list" -> value.v
      [] value.t = "str" -> [i \in 1..Len(value.v) |-> JStr(<<value.v[i]>>)]
      [] OTHER -> IF DOMAIN value.v = {} THEN <<>>
                  ELSE <<JStr(CHOOSE k \in DOMAIN value.v : TRUE)>>

\* the pairs (article, org_data) of the two nested loops, in loop order
RECURSIVE MentionPairs(_)
MentionPairs(extractions) ==
    IF extractions = <<>> THEN <<>>
    ELSE LET extraction == Head(extractions)
             items == ItemsOf(extraction.organisations)
         IN  [i \in 1..Len(items) |->
                 [article |-> extraction.article, org_data |-> items[i]]]
             \o MentionPairs(Tail(extractions))

\* lines 167-182 raise for this org_data: it is no object (TypeError), a
\* key read with [] is missing (KeyError), or a value used as a dict key
\* or set member is a list or an object (TypeError)
Hashable(value) == value.t = "str"
MentionRaises(org_data) ==
    \/ org_data.t # "obj"
    \/ \E k \in {K_nom, K_action, K_enjeu, K_type} :
          \/ k \notin DOMAIN org_data.v
          \/ (k # K_action /\ ~Hashable(org_data.v[k]))

\* the position of nom in org_dict (0: no such key yet)
PositionOf(nom, org_dict) ==
    IF \E i \in 1..Len(org_dict) : org_dict[i].nom = nom
    THEN CHOOSE i \in 1..Len(org_dict) : org_dict[i].nom = nom
    ELSE 0

\* the entry appended to org_dict[nom]["articles"], lines 170-179
ArticleEntry(article, org_data) ==
    [article |-> article,
     action |-> org_data.v[K_action],
     enjeu |-> org_data.v[K_enjeu],
     citation |-> DictGet(org_data, K_citation, JStr(<<>>)),
     resume |-> DictGet(org_data, K_resume, JStr(<<>>))]

\* a variant that appends at most one entry per article
AppendArticleOnce(entries, entry) ==
    IF \E k \in 1..Len(entries) : entries[k].article = entry.article
    THEN entries
    ELSE Append(entries, entry)

\* org_dict[nom]["articles"].append(...), line 170
AppendArticle(entries, entry) == Append(entries, entry)

\* lines 167-182 for one org_data: org_dict is kept as the sequence of its
\* entries in insertion order
FoldMention(org_dict, pair) ==
    LET org_data == pair.org_data
        nom == org_data.v[K_nom]
        pos == PositionOf(nom, org_dict)
        old == IF pos = 0
               THEN [nom |-> nom, mentions |-> 0, articles |-> <<>>,
                     enjeux |-> {}, signaux |-> {}, types |-> {}]
               ELSE org_dict[pos]
        new == [nom |-> nom,
                mentions |-> old.mentions + 1,
                articles |-> AppendArticle(old.articles,
                                           ArticleEntry(pair.article,
                                                        org_data)),
                enjeux |-> old.enjeux \cup {org_data.v[K_enjeu]},
                signaux |-> old.signaux \cup {pair.article.signal},
                types |-> old.types \cup {org_data.v[K_type]}]
    IN  IF pos = 0 THEN Append(org_dict, new)
        ELSE [org_dict EXCEPT ![pos] = new]

RECURSIVE FoldMentions(_, _)
FoldMentions(org_dict, pairs) ==
    IF pairs = <<>> THEN [raised |-> FALSE, org_dict |-> org_dict]
    ELSE IF MentionRaises(Head(pairs).org_data)
    THEN [raised |-> TRUE, org_dict |-> org_dict]
    ELSE FoldMentions(FoldMention(org_dict, Head(pairs)), Tail(pairs))

\* lines 186-194: the final record of one organisation; the order in which
\* the sets are listed (and joined, for several types) is the sets' own
FinalOrganisation(data) ==
    [nom |-> data.nom, type |-> data.types, mentions |-> data.mentions,
     articles |-> data.articles, enjeux_principaux |-> data.enjeux,
     signaux |-> data.signaux]

\* a variant of the sort that puts a later organisation before the earlier
\* ones with the same count
RECURSIVE InsertBeforeEqual(_, _)
InsertBeforeEqual(org, sorted) ==
    IF sorted = <<>> THEN <<org>>
    ELSE IF Head(sorted).mentions > org.mentions
    THEN <<Head(sorted)>> \o InsertBeforeEqual(org, Tail(sorted))
    ELSE <<org>> \o sorted

\* list.sort(key=mentions, reverse=True) is stable: an organisation goes
\* after all those with a count at least as large
RECURSIVE InsertByMentions(_, _)
InsertByMentions(org, sorted) ==
    IF sorted = <<>> THEN <<org>>
    ELSE IF Head(sorted).mentions >= org.mentions
    THEN <<Head(sorted)>> \o InsertByMentions(org, Tail(sorted))
    ELSE <<org>> \o sorted

RECURSIVE SortByMentions(_, _)
SortByMentions(organisations, sorted) ==
    IF organisations = <<>> THEN sorted
    ELSE SortByMentions(Tail(organisations),
                        InsertByMentions(Head(organisations), sorted))

\* aggregate_organizations(all_extractions): the dict returned, or the
\* exception raised
aggregate_organizations(extractions) ==
    LET folded == FoldMentions(<<>>, MentionPairs(extractions))
        organisations ==
            [i \in 1..Len(folded.org_dict) |->
                FinalOrganisation(folded.org_dict[i])]
    IN  IF folded.raised THEN [raised |-> TRUE, organisations |-> <<>>]
        ELSE [raised |-> FALSE,
              organisations |-> SortByMentions(organisations, <<>>)]


ENTITY_MAX_WORKERS == 4

\* the article part of the extraction of row i (the Feed Parser gives every
\* record the signal "consolidated")
ArticleOf(i) == [row |-> i, signal |-> "consolidated"]

NewEntityTask == [st |-> "queued", result |-> EmptyResult(0, <<>>)]
NumEntityRunning ==
    Cardinality({i \in 1..Len(ent_task) : ent_task[i].st = "running"})

\* main, lines 229-271: mkdir, the input check, initialize_gemini, the
\* rows, the tasks submitted
EntityStart ==
    /\ entity_pc = "start"
    /\ IF ~ent_input.exists
       THEN /\ entity_pc' = "noinput"
            /\ UNCHANGED ent_task
       ELSE IF ~ent_key
       THEN /\ entity_pc' = "exited"
            /\ UNCHANGED ent_task
       ELSE /\ entity_pc' = "collect"
            /\ ent_task' = [i \in 1..Len(ent_input.rows) |-> NewEntityTask]
    /\ UNCHANGED <<ent_key, ent_input, ent_order, all_extractions_data,
                   all_extractions, summaries, article_files, orgs_file,
                   summaries_file, debug_file, agg>>
    /\ UNCHANGED nonEntityVars

\* a pool thread takes the oldest queued task
StartArticle(i) ==
    /\ entity_pc = "collect"
    /\ i \in 1..Len(ent_task)
    /\ ent_task[i].st = "queued"
    /\ \A j \in 1..(i - 1) : ent_task[j].st # "queued"
    /\ NumEntityRunning < ENTITY_MAX_WORKERS
    /\ ent_task' = [ent_task EXCEPT ![i].st = "running"]
    /\ UNCHANGED <<entity_pc, ent_key, ent_input, ent_order,
                   all_extractions_data, all_extractions, summaries,
                   article_files, orgs_file, summaries_file, debug_file, agg>>
    /\ UNCHANGED nonEntityVars

\* process_article, lines 202-226: the call of
\* extract_organizations_and_summary and the value returned
ProcessArticleWith(i, result) ==
    /\ i \in 1..Len(ent_task)
    /\ ent_task[i].st = "running"
    /\ ent_task' = [ent_task EXCEPT
                       ![i] = [st |-> "finished", result |-> result]]
    /\ debug_file' = debug_file \o result.debug
    /\ UNCHANGED <<entity_pc, ent_key, ent_input, ent_order,
                   all_extractions_data, all_extractions, summaries,
                   article_files, orgs_file, summaries_file, agg>>
    /\ UNCHANGED nonEntityVars

ProcessArticle(i, debug_ok) ==
    ProcessArticleWith(i, extract_organizations_and_summary(ent_input.rows[i],
                                                            debug_ok))

\* process_article, lines 210-219: extraction_data
ExtractionData(i, result) ==
    [article |-> ArticleOf(i), resume |-> result.resume_article,
     organisations |-> result.organisations]

\* main, lines 274-298: one turn of `for future in as_completed(...)`
CollectExtraction(i) ==
    /\ entity_pc = "collect"
    /\ i \in 1..Len(ent_task)
    /\ ent_task[i].st = "finished"
    /\ \A k \in 1..Len(ent_order) : ent_order[k] # i
    /\ LET extraction_data == ExtractionData(i, ent_task[i].result)
       IN  /\ ent_order' = Append(ent_order, i)
           /\ all_extractions_data' =
                 Append(all_extractions_data, extraction_data)
           /\ article_files' = Append(article_files, extraction_data)
           /\ all_extractions' =
                 IF Truthy(extraction_data.organisations)
                 THEN Append(all_extractions,
                             [article |-> extraction_data.article,
                              organisations |->
                                  extraction_data.organisations])
                 ELSE all_extractions
           /\ summaries' =
                 Append(summaries, [article |-> extraction_data.article,
                                    resume |-> extraction_data.resume])
    /\ UNCHANGED <<entity_pc, ent_key, ent_input, ent_task, orgs_file,
                   summaries_file, debug_file, agg>>
    /\ UNCHANGED nonEntityVars

\* main, lines 300-330: aggregate, write the two files, print the summary;
\* an exception of aggregate_organizations ends main before any write
AggregateAndWrite ==
    /\ entity_pc = "collect"
    /\ Len(ent_order) = Len(ent_task)
    /\ LET aggregated_orgs == aggregate_organizations(all_extractions)
       IN  IF aggregated_orgs.raised
           THEN /\ entity_pc' = "crashed"
                /\ UNCHANGED <<orgs_file, summaries_file>>
           ELSE /\ entity_pc' = "done"
                /\ orgs_file' = [exists |-> TRUE, stale |-> FALSE,
                                 rows |-> aggregated_orgs.organisations]
                /\ summaries_file' = [exists |-> TRUE, stale |-> FALSE,
                                      rows |-> summaries]
    /\ UNCHANGED <<ent_key, ent_input, ent_task, ent_order,
                   all_extractions_data, all_extractions, summaries,
                   article_files, debug_file, agg>>
    /\ UNCHANGED nonEntityVars

\* a call of aggregate_organizations on its own
NoAggregateCall ==
    [called |-> FALSE, input |-> <<>>,
     result |-> [raised |-> FALSE, organisations |-> <<>>]]

AggregateCall ==
    /\ ~agg.called
    /\ agg' = [called |-> TRUE, input |-> agg.input,
               result |-> aggregate_organizations(agg.input)]
    /\ UNCHANGED <<entity_pc, ent_key, ent_input, ent_task, ent_order,
                   all_extractions_data, all_extractions, summaries,
                   article_files, orgs_file, summaries_file, debug_file>>
    /\ UNCHANGED nonEntityVars

\* ---- the texts the service answers with in this model ----
Quoted(words) == <<QUOTE>> \o words \o <<QUOTE>>
Member(key, words) == Quoted(key) \o <<":", SP>> \o Quoted(words)

\* a well-formed mention of the organisation nom
MentionText(nom) ==
    <<"{">> \o Member(K_nom, nom) \o <<",", SP>>
            \o Member(K_type, <<"syndicat">>) \o <<",", SP>>
            \o Member(K_action, <<"demande">>) \o <<",", SP>>
            \o Member(K_enjeu, <<"salaires">>) \o <<"}">>

\* a mention without the name field
MentionTextNoNom ==
    <<"{">> \o Member(K_type, <<"syndicat">>) \o <<",", SP>>
            \o Member(K_action, <<"demande">>) \o <<",", SP>>
            \o Member(K_enjeu, <<"salaires">>) \o <<"}">>

RECURSIVE JoinComma(_)
JoinComma(texts) ==
    IF texts = <<>> THEN <<>>
    ELSE IF Len(texts) = 1 THEN Head(texts)
    ELSE Head(texts) \o <<",", SP>> \o JoinComma(Tail(texts))

\* the document the prompt asks for: a summary and a list of mentions
DocText(summary, mentions) ==
    <<"{", NL>> \o Member(K_resume_article, summary) \o <<",", NL>>
        \o Quoted(K_organisations) \o <<":", SP, "[">>
        \o JoinComma(mentions) \o <<"]", NL, "}">>

Fenced(text) == <<FENCE_JSON, NL>> \o text \o <<NL, FENCE>>

NameA == <<"FTQ">>
NameALower == <<"ftq">>
NameB == <<"CSN">>
Summary == <<"resume", SP, "court">>

InsertAt(text, p, tok) ==
    SubSeq(text, 1, p) \o <<tok>> \o SubSeq(text, p + 1, Len(text))
DeleteAt(text, p) ==
    SubSeq(text, 1, p - 1) \o SubSeq(text, p + 1, Len(text))

\* a summary with a raw line break between two of its words
BrokenSummary == <<"resume", NL, "court">>

\* the responses met by the rows of a batch
BatchEntityResponses ==
    { EntityCallRaises,
      EntityText(Fenced(DocText(Summary, <<MentionText(NameA)>>))),
      EntityText(DocText(Summary, <<MentionText(NameB)>>)),
      EntityText(DocText(Summary,
                         <<MentionText(NameA), MentionText(NameA)>>)),
      EntityText(Fenced(DocText(BrokenSummary, <<MentionText(NameA)>>))),
      EntityText(DocText(Summary, <<MentionTextNoNom>>)) }

\* the texts tried on extract_organizations_and_summary: a well-formed
\* document with one token inserted (a line break, a space) or removed at
\* any place, bare or between fence markers
EditedTexts ==
    LET base == DocText(Summary, <<MentionText(NameA)>>)
    IN  {base}
        \cup {InsertAt(base, p, NL) : p \in 0..Len(base)}
        \cup {InsertAt(base, p, SP) : p \in 0..Len(base)}
        \cup {DeleteAt(base, p) : p \in 1..Len(base)}

AllEntityResponses ==
    {EntityCallRaises}
    \cup {EntityText(t) : t \in EditedTexts}
    \cup {EntityText(Fenced(t)) : t \in EditedTexts}
    \cup {EntityText(<<FENCE, NL>> \o t \o <<NL, FENCE>>) : t \in EditedTexts}

\* the extractions tried on aggregate_organizations
ParsedMention(nom) ==
    JObj((K_nom :> JStr(nom)) @@ (K_type :> JStr(<<"syndicat">>))
         @@ (K_action :> JStr(<<"demande">>))
         @@ (K_enjeu :> JStr(<<"salaires">>)))

AggregateNames == {NameA, NameALower, NameB}
AggregateMentionLists ==
    {[i \in 1..Len(names) |-> ParsedMention(names[i])] :
        names \in UNION {[1..n -> AggregateNames] : n \in 1..MaxMentions}}
AggregateInputs ==
    {[k \in 1..Len(lists) |->
         [article |-> ArticleOf(k), organisations |-> JList(lists[k])]] :
        lists \in SeqsUpTo(AggregateMentionLists, MaxExtractions)}


(***************************************************************************)
(* ========================== FEED PARSER ===============================  *)
(* processors/google_news/1_parse_rss.py                                   *)
(*                                                                         *)
(* An item of the document has, for each of title, source, link and        *)
(* pubDate, no such element, an empty element (its text is None) or a text.*)
(***************************************************************************)
NoElement == "<no element>"
NotAvailable == "N/A"

\* the name of the signal numbered s in SEARCH_QUERIES
SignalName(s) == ToString(s)

\* a variant that leaves the field of a missing element empty
EmptyForMissing(elem) ==
    IF elem = NoElement THEN "" ELSE elem

\* lines 31-38: elem.text if elem is not None else "N/A"
ElemText(elem) == IF elem = NoElement THEN NotAvailable ELSE elem

\* lines 26-46: the record of one item
RecordOf(item, signal_name) ==
    [signal |-> signal_name,
     titre |-> ElemText(item.title),
     source |-> ElemText(item.source),
     url |-> ElemText(item.link),
     date |-> ElemText(item.pubDate)]

\* lines 14-51: ET.parse raises on a document that is not well-formed, the
\* except clause prints and the empty list is returned
extract_articles_from_xml(xml_file, signal_name) ==
    IF xml_file.kind = "malformed" THEN <<>>
    ELSE [k \in 1..Len(xml_file.items) |->
              RecordOf(xml_file.items[k], signal_name)]

\* a variant of ParserStart that does not look for its input
ParserStartAnyway ==
    /\ parser_pc = "start"
    /\ parser_pc' = "parse"
    /\ UNCHANGED <<parser_input, all_articles, raw_file>>
    /\ UNCHANGED nonParserVars

\* lines 54-72: the partition directory or the document is not there
ParserStart ==
    /\ parser_pc = "start"
    /\ parser_pc' = IF parser_input.dir /\ parser_input.exists
                    THEN "parse" ELSE "noinput"
    /\ UNCHANGED <<parser_input, all_articles, raw_file>>
    /\ UNCHANGED nonParserVars

\* lines 74-79
ParseConsolidated ==
    /\ parser_pc = "parse"
    /\ all_articles' =
          all_articles \o extract_articles_from_xml(parser_input, "consolidated")
    /\ parser_pc' = "write"
    /\ UNCHANGED <<parser_input, raw_file>>
    /\ UNCHANGED nonParserVars

\* lines 81-104: the records file is written, also with no record at all
WriteRaw ==
    /\ parser_pc = "write"
    /\ raw_file' = [exists |-> TRUE, stale |-> FALSE, rows |-> all_articles]
    /\ parser_pc' = "done"
    /\ UNCHANGED <<parser_input, all_articles>>
    /\ UNCHANGED nonParserVars

\* the items a document may hold: every element there, none there, one of
\* the four not there, an empty link; returned by the first or last signal
FullItem ==
    [title |-> "titre", source |-> "source", link |-> "text",
     pubDate |-> "pubDate"]
ElemCases == {NoElement, None}
DocItemShapes ==
    {FullItem,
     [title |-> NoElement, source |-> NoElement, link |-> NoElement,
      pubDate |-> NoElement]}
        \cup {[FullItem EXCEPT !.title = NoElement],
              [FullItem EXCEPT !.source = NoElement],
              [FullItem EXCEPT !.pubDate = NoElement]}
        \cup {[FullItem EXCEPT !.link = e] : e \in ElemCases}
DocItems ==
    {[title |-> x.title, source |-> x.source, link |-> x.link,
      pubDate |-> x.pubDate, sig |-> s] :
        x \in DocItemShapes, s \in {1, NumSignals}}
ParserInputs ==
    [dir : BOOLEAN, exists : BOOLEAN, kind : {"rss"},
     items : SeqsUpTo(DocItems, MaxDocItems)]
        \cup [dir : BOOLEAN, exists : BOOLEAN, kind : {"malformed"},
              items : {<<>>}]
\* articles_raw.csv of an earlier run of the same date
StaleRaw ==
    [exists |-> TRUE, stale |-> TRUE,
     rows |-> <<[signal |-> "consolidated", titre |-> "old", source |-> "old",
                 url |-> "http://n/old", date |-> "old"]>>]


(***************************************************************************)
(* ========================= LEAD QUALIFIER =============================  *)
(* processors/google_news/5_qualify_leads.py                               *)
(*                                                                         *)
(* An organisation is named by its place in the input file.  A response    *)
(* text is a token sequence, cleaned and parsed as in the Entity Extractor.*)
(***************************************************************************)
QUALIFIER_MAX_WORKERS == 4

K_lead_potentiel == <<"lead_potentiel">>
K_score == <<"score">>
K_raison == <<"raison">>
K_besoin_anticipe == <<"besoin_anticipe">>
K_urgence == <<"urgence">>

\* qualify_organization, lines 106-150: the parsed response, or None (which
\* is also what the JSON text null parses to) when the call raises or the
\* cleaned text is no JSON
qualify_organization(response) ==
    IF response.kind = "raise" THEN JNull
    ELSE LET response_text == StripFence(TextStrip(response.text))
             qualification == json_loads(response_text)
         IN  IF qualification.ok THEN qualification.value ELSE JNull

\* value[:80] raises on a value that cannot be sliced
SliceRaises(value) == value.t \notin {"str", "list"}

\* process_organization, lines 153-170, on what qualify_organization gave:
\* the lead returned, None (lead is FALSE), or the exception that leaves
\* the function: .get on a value that is no dict, ['score'] or ['raison']
\* on a verdict without that key, [:80] on a rationale that is no text
process_organization(org, qualification) ==
    LET none == [raised |-> FALSE, lead |-> FALSE,
                 qualification |-> qualification]
        raises == [raised |-> TRUE, lead |-> FALSE,
                   qualification |-> qualification]
    IN  IF ~Truthy(qualification) THEN none
        ELSE IF qualification.t # "obj" THEN raises
        ELSE IF ~Truthy(DictGet(qualification, K_lead_potentiel,
                                JBool(FALSE)))
        THEN none
        ELSE IF K_score \notin DOMAIN qualification.v THEN raises
        ELSE IF K_raison \notin DOMAIN qualification.v THEN raises
        ELSE IF SliceRaises(qualification.v[K_raison]) THEN raises
        ELSE [raised |-> FALSE, lead |-> TRUE,
              qualification |-> qualification]

\* x['qualification']['score'] of two leads compared by list.sort: integers
\* and booleans with each other, strings with each other (here: strings of
\* at most one digit), anything else raises TypeError
ScoreOf(lead) == lead.qualification.v[K_score]
IsNumber(score) == score.t \in {"int", "bool"}
NumberOf(score) ==
    IF score.t = "int" THEN score.v ELSE IF score.v THEN 1 ELSE 0
DigitOf(words) ==
    IF words = <<>> THEN -1
    ELSE CASE Head(words) = "0" -> 0 [] Head(words) = "3" -> 3
           [] Head(words) = "4" -> 4 [] OTHER -> 5
Comparable(a, b) ==
    \/ IsNumber(a) /\ IsNumber(b)
    \/ a.t = "str" /\ b.t = "str"
ScoreKey(score) ==
    IF IsNumber(score) THEN NumberOf(score) ELSE DigitOf(score.v)

\* a variant of the insertion that puts a lead before those of equal score
RECURSIVE InsertBeforeEqualScore(_, _)
InsertBeforeEqualScore(lead, sorted) ==
    IF sorted = <<>> THEN <<lead>>
    ELSE IF ScoreKey(ScoreOf(Head(sorted))) > ScoreKey(ScoreOf(lead))
    THEN <<Head(sorted)>> \o InsertBeforeEqualScore(lead, Tail(sorted))
    ELSE <<lead>> \o sorted

\* line 220, list.sort(key=score, reverse=True) is stable: a lead goes
\* after all those with a score at least as large
RECURSIVE InsertByScore(_, _)
InsertByScore(lead, sorted) ==
    IF sorted = <<>> THEN <<lead>>
    ELSE IF ScoreKey(ScoreOf(Head(sorted))) >= ScoreKey(ScoreOf(lead))
    THEN <<Head(sorted)>> \o InsertByScore(lead, Tail(sorted))
    ELSE <<lead>> \o sorted

RECURSIVE SortByScore(_, _)
SortByScore(leads, sorted) ==
    IF leads = <<>> THEN sorted
    ELSE SortByScore(Tail(leads), InsertByScore(Head(leads), sorted))

\* the sort raises when two of the scores cannot be compared (for lists of
\* up to five leads every such pair makes list.sort raise)
SortRaises(leads) ==
    \E a, b \in 1..Len(leads) :
        a < b /\ ~Comparable(ScoreOf(leads[a]), ScoreOf(leads[b]))

\* lines 233-261: the summary printed after the file is written divides by
\* the number of organisations and prints, for the first ten leads, the
\* fields besoin_anticipe and urgence of the verdict
SummaryRaises(organisations, leads) ==
    \/ Len(organisations) = 0
    \/ \E k \in 1..Len(leads) :
          \/ K_besoin_anticipe \notin DOMAIN leads[k].qualification.v
          \/ K_urgence \notin DOMAIN leads[k].qualification.v

NewQualTask ==
    [st |-> "queued",
     result |-> [raised |-> FALSE, lead |-> FALSE, qualification |-> JNull]]
NumQualRunning ==
    Cardinality({i \in 1..Len(qual_task) : qual_task[i].st = "running"})

\* a variant of QualifierStart that leaves the credential to the calls
QualifierStartNoKey ==
    /\ qualifier_pc = "start"
    /\ IF ~qual_input.exists
       THEN /\ qualifier_pc' = "noinput"
            /\ UNCHANGED qual_task
       ELSE /\ qualifier_pc' = "collect"
            /\ qual_task' = [i \in 1..Len(qual_input.rows) |-> NewQualTask]
    /\ UNCHANGED <<qual_key, qual_input, qual_order, qualified_leads,
                   leads_file>>
    /\ UNCHANGED nonQualifierVars

\* main, lines 173-210: mkdir, the input check, initialize_gemini, the
\* organisations read, the tasks submitted
QualifierStart ==
    /\ qualifier_pc = "start"
    /\ IF ~qual_input.exists
       THEN /\ qualifier_pc' = "noinput"
            /\ UNCHANGED qual_task
       ELSE IF ~qual_key
       THEN /\ qualifier_pc' = "exited"
            /\ UNCHANGED qual_task
       ELSE /\ qualifier_pc' = "collect"
            /\ qual_task' = [i \in 1..Len(qual_input.rows) |-> NewQualTask]
    /\ UNCHANGED <<qual_key, qual_input, qual_order, qualified_leads,
                   leads_file>>
    /\ UNCHANGED nonQualifierVars

\* a variant of StartOrganization for a pool with a thread per task
StartOrganizationUnbounded(i) ==
    /\ qualifier_pc \in {"collect", "abort"}
    /\ i \in 1..Len(qual_task)
    /\ qual_task[i].st = "queued"
    /\ \A j \in 1..(i - 1) : qual_task[j].st # "queued"
    /\ qual_task' = [qual_task EXCEPT ![i].st = "running"]
    /\ UNCHANGED <<qualifier_pc, qual_key, qual_input, qual_order,
                   qualified_leads, leads_file>>
    /\ UNCHANGED nonQualifierVars

\* a pool thread takes the oldest queued task
StartOrganization(i) ==
    /\ qualifier_pc \in {"collect", "abort"}
    /\ i \in 1..Len(qual_task)
    /\ qual_task[i].st = "queued"
    /\ \A j \in 1..(i - 1) : qual_task[j].st # "queued"
    /\ NumQualRunning < QUALIFIER_MAX_WORKERS
    /\ qual_task' = [qual_task EXCEPT ![i].st = "running"]
    /\ UNCHANGED <<qualifier_pc, qual_key, qual_input, qual_order,
                   qualified_leads, leads_file>>
    /\ UNCHANGED nonQualifierVars

\* the worker: process_organization on organisation i
ProcessOrganizationWith(i, qualification) ==
    /\ i \in 1..Len(qual_task)
    /\ qual_task[i].st = "running"
    /\ qual_task' =
          [qual_task EXCEPT
              ![i] = [st |-> "finished",
                      result |-> process_organization(i, qualification)]]
    /\ UNCHANGED <<qualifier_pc, qual_key, qual_input, qual_order,
                   qualified_leads, leads_file>>
    /\ UNCHANGED nonQualifierVars

ProcessOrganization(i) ==
    ProcessOrganizationWith(i, qualify_organization(qual_input.rows[i]))

\* main, lines 212-215: one turn of `for future in as_completed(...)`;
\* future.result() re-raises the exception of the worker and main leaves
\* the loop
CollectLead(i) ==
    /\ qualifier_pc = "collect"
    /\ i \in 1..Len(qual_task)
    /\ qual_task[i].st = "finished"
    /\ \A k \in 1..Len(qual_order) : qual_order[k] # i
    /\ qual_order' = Append(qual_order, i)
    /\ IF qual_task[i].result.raised
       THEN /\ qualifier_pc' = "abort"
            /\ UNCHANGED qualified_leads
       ELSE /\ qualifier_pc' = "collect"
            /\ qualified_leads' =
                  IF qual_task[i].result.lead
                  THEN Append(qualified_leads,
                              [organisation |-> i,
                               qualification |->
                                   qual_task[i].result.qualification])
                  ELSE qualified_leads
    /\ UNCHANGED <<qual_key, qual_input, qual_task, leads_file>>
    /\ UNCHANGED nonQualifierVars

\* line 209: leaving the `with` block waits for the tasks still queued or
\* running, then the exception ends main
QualifierAbort ==
    /\ qualifier_pc = "abort"
    /\ \A i \in 1..Len(qual_task) : qual_task[i].st = "finished"
    /\ qualifier_pc' = "crashed"
    /\ UNCHANGED <<qual_key, qual_input, qual_task, qual_order,
                   qualified_leads, leads_file>>
    /\ UNCHANGED nonQualifierVars

\* main, lines 217-263: the sort, the file, the summary
SortAndWriteLeads ==
    /\ qualifier_pc = "collect"
    /\ Len(qual_order) = Len(qual_task)
    /\ IF SortRaises(qualified_leads)
       THEN /\ qualifier_pc' = "crashed"
            /\ UNCHANGED <<qualified_leads, leads_file>>
       ELSE LET sorted == SortByScore(qualified_leads, <<>>)
            IN  /\ qualified_leads' = sorted
                /\ leads_file' = [exists |-> TRUE, stale |-> FALSE,
                                  rows |-> sorted]
                /\ qualifier_pc' =
                      IF SummaryRaises(qual_input.rows, sorted)
                      THEN "raised" ELSE "done"
    /\ UNCHANGED <<qual_key, qual_input, qual_task, qual_order>>
    /\ UNCHANGED nonQualifierVars

\* the verdict texts
LitMember(key, tok) == Quoted(key) \o <<":", SP, tok>>
VerdictTail ==
    <<Member(K_raison, <<"besoin">>), Member(K_besoin_anticipe, <<"sondage">>),
      Member(K_urgence, <<"haute">>)>>
ObjText(members) == <<"{">> \o JoinComma(members) \o <<"}">>
VerdictText(lead, score) ==
    ObjText(<<LitMember(K_lead_potentiel, lead), score>> \o VerdictTail)

\* the responses met by the organisations of a batch
BatchVerdicts ==
    { EntityCallRaises,
      EntityText(Fenced(VerdictText("true", LitMember(K_score, "5")))),
      EntityText(VerdictText("true", LitMember(K_score, "3"))),
      EntityText(VerdictText("false", LitMember(K_score, "0"))),
      EntityText(ObjText(<<LitMember(K_lead_potentiel, "true")>>
                             \o VerdictTail)),
      EntityText(VerdictText("true", LitMember(K_score, "null"))) }

\* the responses tried on one organisation
AllVerdicts ==
    BatchVerdicts \cup
    { EntityText(<<"desole">>),
      EntityText(<<"null">>),
      EntityText(<<"[", QUOTE, "x", QUOTE, "]">>),
      EntityText(<<"{", "}">>),
      EntityText(ObjText(<<LitMember(K_score, "5")>> \o VerdictTail)),
      EntityText(VerdictText("null", LitMember(K_score, "5"))),
      EntityText(ObjText(<<Member(K_lead_potentiel, <<"non">>),
                           LitMember(K_score, "3")>> \o VerdictTail)),
      EntityText(VerdictText("true", Member(K_score, <<"5">>))),
      EntityText(ObjText(<<LitMember(K_lead_potentiel, "true"),
                           LitMember(K_score, "5"),
                           Member(K_besoin_anticipe, <<"sondage">>),
                           Member(K_urgence, <<"haute">>)>>)),
      EntityText(ObjText(<<LitMember(K_lead_potentiel, "true"),
                           LitMember(K_score, "5"),
                           LitMember(K_raison, "null"),
                           Member(K_besoin_anticipe, <<"sondage">>),
                           Member(K_urgence, <<"haute">>)>>)),
      EntityText(ObjText(<<LitMember(K_lead_potentiel, "true"),
                           LitMember(K_score, "5"),
                           Member(K_raison, <<"besoin">>)>>)),
      EntityText(Fenced(VerdictText("true", LitMember(K_score, "4"))) \o <<NL>>) }

\* google_news_leads.json of an earlier run of the same date
StaleLeads ==
    [exists |-> TRUE, stale |-> TRUE,
     rows |-> <<[organisation |-> 0, qualification |-> JObj(<<>>)]>>]


(***************************************************************************)
(* ======================= SPECIFICATIONS ===============================  *)
(* The stages are separate scripts: a specification runs one of them and   *)
(* leaves the others idle.                                                 *)
(***************************************************************************)
CollectorIdle ==
    /\ collector_pc = "idle"
    /\ sig_idx = 0
    /\ feeds = <<>>
    /\ all_items = <<>>
    /\ query_results = <<>>
    /\ unique_items = <<>>
    /\ dedup_stats = NoStats
    /\ consolidated = NoFile
    /\ flt = NoFilterCall

FetcherIdle ==
    /\ fetcher_pc = "idle"
    /\ articles = <<>>
    /\ tasks = <<>>
    /\ counter = 0
    /\ task = <<>>
    /\ collected = {}
    /\ filtered_articles = <<>>
    /\ counts = [success |-> 0, skipped |-> 0, failed |-> 0]
    /\ html_files = <<>>
    /\ mapping_file = [exists |-> FALSE, stale |-> FALSE, rows |-> <<>>]
    /\ dir_stale = FALSE
    /\ fetch_input = FALSE

RelevanceIdle ==
    /\ relevance_pc = "idle"
    /\ rel_key = FALSE
    /\ rel_input = [exists |-> FALSE, fields |-> {}, rows |-> <<>>]
    /\ rel_idx = 1
    /\ rel_results = <<>>
    /\ rel_filtered = <<>>
    /\ scores_distribution = [s \in 1..5 |-> 0]
    /\ rel_output = NoOutput

ExtractorIdle ==
    /\ extractor_pc = "idle"
    /\ wh_mapping = [exists |-> FALSE, rows |-> <<>>]
    /\ wh_idx = 1
    /\ warehouse_data = <<>>
    /\ warehouse_file = NoOutput

EntityIdle ==
    /\ entity_pc = "idle"
    /\ ent_key = FALSE
    /\ ent_input = [exists |-> FALSE, rows |-> <<>>]
    /\ ent_task = <<>>
    /\ ent_order = <<>>
    /\ all_extractions_data = <<>>
    /\ all_extractions = <<>>
    /\ summaries = <<>>
    /\ article_files = <<>>
    /\ orgs_file = NoOutput
    /\ summaries_file = NoOutput
    /\ debug_file = <<>>
    /\ agg = NoAggregateCall

ParserIdle ==
    /\ parser_pc = "idle"
    /\ parser_input = [dir |-> FALSE, exists |-> FALSE, kind |-> "rss",
                       items |-> <<>>]
    /\ all_articles = <<>>
    /\ raw_file = NoOutput

QualifierIdle ==
    /\ qualifier_pc = "idle"
    /\ qual_key = FALSE
    /\ qual_input = [exists |-> FALSE, rows |-> <<>>]
    /\ qual_task = <<>>
    /\ qual_order = <<>>
    /\ qualified_leads = <<>>
    /\ leads_file = NoOutput

(***************************************************************************)
(* Specification of the Collector run.                                     *)
(***************************************************************************)
InitCollector ==
    /\ FetcherIdle
    /\ RelevanceIdle
    /\ ExtractorIdle
    /\ EntityIdle
    /\ ParserIdle
    /\ QualifierIdle
    /\ collector_pc = "loop"
    /\ sig_idx = 1
    /\ feeds = <<>>
    /\ all_items = <<>>
    /\ query_results = <<>>
    /\ unique_items = <<>>
    /\ dedup_stats = NoStats
    /\ consolidated = NoFile
    /\ flt = NoFilterCall

NextCollector ==
    \/ CollectSignal
    \/ EndOfSignals
    \/ Deduplicate
    \/ WriteConsolidated

SpecCollector == InitCollector /\ [][NextCollector]_vars

(***************************************************************************)
(* Specification of deduplicate_articles on any list of surviving items:   *)
(* the Collector after its loop, with all_items drawn from the bounded set.*)
(***************************************************************************)
DedupInputs ==
    { [i \in 1..Len(ls) |->
          [sig |-> 1, idx |-> i, link |-> ls[i],
           date |-> AwareDate(Window + 1)]] : ls \in SeqsUpTo(Links, MaxItems) }

InitDedup ==
    /\ FetcherIdle
    /\ RelevanceIdle
    /\ ExtractorIdle
    /\ EntityIdle
    /\ ParserIdle
    /\ QualifierIdle
    /\ collector_pc = "dedup"
    /\ sig_idx = NumSignals + 1
    /\ feeds = <<>>
    /\ all_items \in DedupInputs
    /\ query_results = <<>>
    /\ unique_items = <<>>
    /\ dedup_stats = NoStats
    /\ consolidated \in {NoFile, StaleFile}
    /\ flt = NoFilterCall

NextDedup ==
    \/ Deduplicate
    \/ WriteConsolidated

SpecDedup == InitDedup /\ [][NextDedup]_vars

(***************************************************************************)
(* Specification of filter_rss_by_date on any document and clock value.    *)
(***************************************************************************)
DateItems == [link : {"http://n/u1"}, date : Dates]
DateDocs ==
    {Malformed, NoChannel}
      \cup {RssDoc(s) : s \in SeqsUpTo(DateItems, MaxFeedLen)}

InitDateFilter ==
    /\ FetcherIdle
    /\ RelevanceIdle
    /\ ExtractorIdle
    /\ EntityIdle
    /\ ParserIdle
    /\ QualifierIdle
    /\ collector_pc = "idle"
    /\ sig_idx = 0
    /\ feeds = <<>>
    /\ all_items = <<>>
    /\ query_results = <<>>
    /\ unique_items = <<>>
    /\ dedup_stats = NoStats
    /\ consolidated = NoFile
    /\ \E doc \in DateDocs, now \in Nows :
          flt = [called |-> FALSE, doc |-> doc, now |-> now,
                 res |-> filter_rss_by_date(NoChannel, 0)]

NextDateFilter == FilterCall

SpecDateFilter == InitDateFilter /\ [][NextDateFilter]_vars

(***************************************************************************)
(* Specification of a Fetcher run over a batch of rows.                    *)
(***************************************************************************)
InitFetcherWith(rows) ==
    /\ CollectorIdle
    /\ RelevanceIdle
    /\ ExtractorIdle
    /\ EntityIdle
    /\ ParserIdle
    /\ QualifierIdle
    /\ fetcher_pc = "start"
    /\ articles \in rows
    /\ tasks = <<>>
    /\ counter = 0
    /\ task = <<>>
    /\ collected = {}
    /\ filtered_articles = <<>>
    /\ counts = [success |-> 0, skipped |-> 0, failed |-> 0]
    /\ dir_stale \in BOOLEAN
    /\ fetch_input \in BOOLEAN
    /\ html_files = [k \in 1..Len(articles) |-> InitialFile]
    /\ mapping_file = [exists |-> dir_stale, stale |-> dir_stale,
                       rows |-> <<>>]

InitFetcher ==
    InitFetcherWith(SeqsUpTo([url : {GoogleNewsUrl}], MaxArticles))

NextFetcher ==
    \/ FetcherNoInput
    \/ PrepareTasks
    \/ \E i \in 1..MaxArticles, created \in BOOLEAN : CreateDriver(i, created)
    \/ \E i \in 1..MaxArticles, o \in BatchOutcomes : Download(i, o)
    \/ \E i \in 1..MaxArticles, unlink_ok \in BOOLEAN : Decide(i, unlink_ok)
    \/ \E i \in 1..MaxArticles : Quit(i)
    \/ \E i \in 1..MaxArticles : Collect(i)
    \/ WriteMapping
    \/ AbortAfterWorkers

SpecFetcher == InitFetcher /\ [][NextFetcher]_vars

(***************************************************************************)
(* Specification of a Fetcher run over one row, for any initial and final  *)
(* URL.                                                                    *)
(***************************************************************************)
InitFetchOne ==
    InitFetcherWith({<<[url |-> u]>> : u \in InitialUrls})

NextFetchOne ==
    \/ FetcherNoInput
    \/ PrepareTasks
    \/ \E created \in BOOLEAN : CreateDriver(1, created)
    \/ \E o \in AllOutcomes : Download(1, o)
    \/ \E unlink_ok \in BOOLEAN : Decide(1, unlink_ok)
    \/ Quit(1)
    \/ Collect(1)
    \/ WriteMapping
    \/ AbortAfterWorkers

SpecFetchOne == InitFetchOne /\ [][NextFetchOne]_vars

(***************************************************************************)
(* Specification of a Relevance Filter run.                                *)
(***************************************************************************)
InitRelevanceWith(pc, rows) ==
    /\ CollectorIdle
    /\ FetcherIdle
    /\ ExtractorIdle
    /\ EntityIdle
    /\ ParserIdle
    /\ QualifierIdle
    /\ relevance_pc = pc
    /\ rel_key \in BOOLEAN
    /\ rel_input \in [exists : BOOLEAN,
                      fields : {ParserFields, ParserFields \ {"date"}},
                      rows : rows]
    /\ rel_idx = 1
    /\ rel_results = <<>>
    /\ rel_filtered = <<>>
    /\ scores_distribution = [s \in 1..5 |-> 0]
    /\ rel_output \in {NoOutput, StaleOutput}

InitRelevance == InitRelevanceWith("start", SeqsUpTo(BatchResponses, MaxRows))

NextRelevance == RelevanceStart \/ EvaluateNext \/ RelevanceFinish

SpecRelevance == InitRelevance /\ [][NextRelevance]_vars

(***************************************************************************)
(* Specification of evaluate_article on any response: the loop of main     *)
(* over one row.                                                           *)
(***************************************************************************)
InitEvaluate ==
    /\ InitRelevanceWith("eval", {<<r>> : r \in AllResponses})
    /\ rel_key
    /\ rel_input.exists
    /\ rel_input.fields = ParserFields
    /\ rel_output = NoOutput

NextEvaluate == EvaluateNext \/ RelevanceFinish

SpecEvaluate == InitEvaluate /\ [][NextEvaluate]_vars

(***************************************************************************)
(* Specification of an Extractor run.                                      *)
(***************************************************************************)
InitExtractor ==
    /\ CollectorIdle
    /\ FetcherIdle
    /\ RelevanceIdle
    /\ EntityIdle
    /\ ParserIdle
    /\ QualifierIdle
    /\ extractor_pc = "start"
    /\ wh_mapping \in [exists : BOOLEAN,
                       rows : SeqsUpTo(ContentCases, MaxMappingRows)]
    /\ wh_idx = 1
    /\ warehouse_data = <<>>
    /\ warehouse_file \in {NoOutput, StaleOutput}

NextExtractor == ExtractorStart \/ ExtractNext \/ WriteWarehouse

SpecExtractor == InitExtractor /\ [][NextExtractor]_vars


(***************************************************************************)
(* Specification of an Entity Extractor run: a batch of rows, or one row   *)
(* with any of the edited texts.                                           *)
(***************************************************************************)
InitEntityWith(pc, rows) ==
    /\ CollectorIdle
    /\ FetcherIdle
    /\ RelevanceIdle
    /\ ExtractorIdle
    /\ ParserIdle
    /\ QualifierIdle
    /\ entity_pc = pc
    /\ ent_key \in BOOLEAN
    /\ ent_input \in [exists : BOOLEAN, rows : rows]
    /\ ent_task = <<>>
    /\ ent_order = <<>>
    /\ all_extractions_data = <<>>
    /\ all_extractions = <<>>
    /\ summaries = <<>>
    /\ article_files = <<>>
    /\ orgs_file \in {NoOutput, StaleOutput}
    /\ summaries_file = orgs_file
    /\ debug_file = <<>>

InitEntity ==
    /\ InitEntityWith("start",
                      SeqsUpTo(BatchEntityResponses, MaxEntityRows)
                          \cup {<<r>> : r \in AllEntityResponses})
    /\ agg = NoAggregateCall

NextEntity ==
    \/ EntityStart
    \/ \E i \in 1..MaxEntityRows : StartArticle(i)
    \/ \E i \in 1..MaxEntityRows, debug_ok \in BOOLEAN :
          ProcessArticle(i, debug_ok)
    \/ \E i \in 1..MaxEntityRows : CollectExtraction(i)
    \/ AggregateAndWrite

SpecEntity == InitEntity /\ [][NextEntity]_vars

(***************************************************************************)
(* Specification of extract_organizations_and_summary on any of the edited *)
(* texts: a run over one row.                                              *)
(***************************************************************************)
InitEntityParse ==
    /\ InitEntityWith("start", {<<r>> : r \in AllEntityResponses})
    /\ ent_key
    /\ ent_input.exists
    /\ orgs_file = NoOutput
    /\ agg = NoAggregateCall

NextEntityParse ==
    \/ EntityStart
    \/ StartArticle(1)
    \/ \E debug_ok \in BOOLEAN : ProcessArticle(1, debug_ok)
    \/ CollectExtraction(1)
    \/ AggregateAndWrite

SpecEntityParse == InitEntityParse /\ [][NextEntityParse]_vars

(***************************************************************************)
(* Specification of aggregate_organizations on any list of extractions.    *)
(***************************************************************************)
InitAggregate ==
    /\ InitEntityWith("idle", {<<>>})
    /\ ~ent_key
    /\ ~ent_input.exists
    /\ orgs_file = NoOutput
    /\ agg \in {[called |-> FALSE, input |-> input,
                 result |-> NoAggregateCall.result] :
                    input \in AggregateInputs}

NextAggregate == AggregateCall

SpecAggregate == InitAggregate /\ [][NextAggregate]_vars


(***************************************************************************)
(* Specification of a Feed Parser run.                                     *)
(***************************************************************************)
InitParser ==
    /\ CollectorIdle
    /\ FetcherIdle
    /\ RelevanceIdle
    /\ ExtractorIdle
    /\ EntityIdle
    /\ QualifierIdle
    /\ parser_pc = "start"
    /\ parser_input \in {x \in ParserInputs : x.exists => x.dir}
    /\ all_articles = <<>>
    /\ raw_file \in {NoOutput, StaleRaw}

NextParser == ParserStart \/ ParseConsolidated \/ WriteRaw

SpecParser == InitParser /\ [][NextParser]_vars


(***************************************************************************)
(* Specification of a Lead Qualifier run: a batch of organisations, or one *)
(* organisation with any of the responses.                                 *)
(***************************************************************************)
InitQualifierWith(rows) ==
    /\ CollectorIdle
    /\ FetcherIdle
    /\ RelevanceIdle
    /\ ExtractorIdle
    /\ EntityIdle
    /\ ParserIdle
    /\ qualifier_pc = "start"
    /\ qual_key \in BOOLEAN
    /\ qual_input \in [exists : BOOLEAN, rows : rows]
    /\ qual_task = <<>>
    /\ qual_order = <<>>
    /\ qualified_leads = <<>>
    /\ leads_file \in {NoOutput, StaleLeads}

InitQualifier ==
    InitQualifierWith(SeqsUpTo(BatchVerdicts, MaxOrgs)
                          \cup {<<r>> : r \in AllVerdicts})

NextQualifier ==
    \/ QualifierStart
    \/ \E i \in 1..MaxOrgs : StartOrganization(i)
    \/ \E i \in 1..MaxOrgs : ProcessOrganization(i)
    \/ \E i \in 1..MaxOrgs : CollectLead(i)
    \/ QualifierAbort
    \/ SortAndWriteLeads

SpecQualifier == InitQualifier /\ [][NextQualifier]_vars


(***************************************************************************)
(* Specification of the pipeline's stages, each run on its own: one run of *)
(* any one stage, the others idle.                                         *)
(***************************************************************************)
InitPipeline ==
    \/ InitCollector
    \/ InitDedup
    \/ InitParser
    \/ InitFetcher
    \/ InitRelevance
    \/ InitExtractor
    \/ InitEntity
    \/ InitQualifier

NextPipeline ==
    \/ NextCollector
    \/ NextParser
    \/ NextFetcher
    \/ NextRelevance
    \/ NextExtractor
    \/ NextEntity
    \/ NextQualifier

SpecPipeline == InitPipeline /\ [][NextPipeline]_vars


(***************************************************************************)
(* Specification of the three thread pools (Fetcher, Entity Extractor,     *)
(* Lead Qualifier) on a batch of PoolTasks items, more than a pool has     *)
(* threads.  The items of a batch are alike, but for a first organisation  *)
(* whose verdict makes its worker raise and a first article whose browser  *)
(* may fail to start; no page loads.                                       *)
(***************************************************************************)
PoolArticles == [i \in 1..PoolTasks |-> [url |-> GoogleNewsUrl]]
PoolOutcomes == {LoadFails}
PoolCreated(i) == IF i = 1 THEN BOOLEAN ELSE {TRUE}
PoolEntityRows ==
    [i \in 1..PoolTasks |->
        EntityText(DocText(Summary, <<MentionText(NameB)>>))]
PoolVerdict == EntityText(VerdictText("true", LitMember(K_score, "3")))
PoolBadVerdict ==
    EntityText(ObjText(<<LitMember(K_lead_potentiel, "true")>>
                           \o VerdictTail))
PoolVerdictRows ==
    { [i \in 1..PoolTasks |-> PoolVerdict],
      [i \in 1..PoolTasks |-> IF i = 1 THEN PoolBadVerdict ELSE PoolVerdict] }

InitPool ==
    \/ InitFetcherWith({PoolArticles}) /\ fetch_input /\ ~dir_stale
    \/ /\ InitEntityWith("start", {PoolEntityRows})
       /\ agg = NoAggregateCall
       /\ ent_key /\ ent_input.exists
    \/ InitQualifierWith(PoolVerdictRows) /\ qual_key /\ qual_input.exists

NextPool ==
    \/ PrepareTasks
    \/ \E i \in 1..PoolTasks :
          \E created \in PoolCreated(i) : CreateDriver(i, created)
    \/ \E i \in 1..PoolTasks, o \in PoolOutcomes : Download(i, o)
    \/ \E i \in 1..PoolTasks : Decide(i, TRUE)
    \/ \E i \in 1..PoolTasks : Quit(i)
    \/ \E i \in 1..PoolTasks : Collect(i)
    \/ WriteMapping
    \/ AbortAfterWorkers
    \/ EntityStart
    \/ \E i \in 1..PoolTasks : StartArticle(i)
    \/ \E i \in 1..PoolTasks : ProcessArticle(i, TRUE)
    \/ \E i \in 1..PoolTasks : CollectExtraction(i)
    \/ AggregateAndWrite
    \/ QualifierStart
    \/ \E i \in 1..PoolTasks : StartOrganization(i)
    \/ \E i \in 1..PoolTasks : ProcessOrganization(i)
    \/ \E i \in 1..PoolTasks : CollectLead(i)
    \/ QualifierAbort
    \/ SortAndWriteLeads

SpecPool == InitPool /\ [][NextPool]_vars

\* what the workers compute on the items of these batches
PoolExtractions ==
    [r \in {PoolEntityRows[i] : i \in 1..PoolTasks} |->
        extract_organizations_and_summary(r, TRUE)]
PoolQualifications ==
    [r \in {PoolVerdict, PoolBadVerdict} |-> qualify_organization(r)]

\* the steps of the pool threads
WorkerStep ==
    \/ \E i \in 1..PoolTasks :
          \E created \in PoolCreated(i) : CreateDriver(i, created)
    \/ \E i \in 1..PoolTasks, o \in PoolOutcomes : Download(i, o)
    \/ \E i \in 1..PoolTasks : Decide(i, TRUE)
    \/ \E i \in 1..PoolTasks : Quit(i)
    \/ \E i \in 1..PoolTasks : StartArticle(i)
    \/ \E i \in 1..Len(ent_task) :
          ProcessArticleWith(i, PoolExtractions[ent_input.rows[i]])
    \/ \E i \in 1..PoolTasks : StartOrganization(i)
    \/ \E i \in 1..Len(qual_task) :
          ProcessOrganizationWith(i, PoolQualifications[qual_input.rows[i]])

\* the pool threads are operating-system threads, and every call they make
\* returns or raises: a pool thread that can take a step takes it
SpecPoolFair == SpecPool /\ WF_vars(WorkerStep)


(***************************************************************************)
(* ========================== PROPERTIES ================================  *)
(***************************************************************************)

\* an item carries a URL when its <link> holds a non-empty text
CarriesUrl(item) == item.link \in Urls

\* out holds, in input order, the first item of inp for every distinct URL
IsFirstOccurrenceList(out, inp) ==
    /\ \A i, j \in 1..Len(out) : i # j => out[i].link # out[j].link
    /\ {out[i].link : i \in 1..Len(out)}
         = {inp[k].link : k \in {n \in 1..Len(inp) : CarriesUrl(inp[n])}}
    /\ \E pos \in [1..Len(out) -> 1..Len(inp)] :
          /\ \A i \in 1..Len(out) :
                /\ inp[pos[i]] = out[i]
                /\ \A k \in 1..(pos[i] - 1) : inp[k].link # out[i].link
          /\ \A i, j \in 1..Len(out) : i < j => pos[i] < pos[j]

\* N items, L of them without a URL, M of them carrying a URL that another
\* item carries too, D distinct URLs among those M
NumLinkless(inp) == CountIf(inp, LAMBDA it : ~CarriesUrl(it))
SharesUrl(inp, k) ==
    /\ CarriesUrl(inp[k])
    /\ \E j \in 1..Len(inp) : j # k /\ inp[j].link = inp[k].link
NumSharing(inp) == Cardinality({k \in 1..Len(inp) : SharesUrl(inp, k)})
NumSharedUrls(inp) ==
    Cardinality({inp[k].link : k \in {n \in 1..Len(inp) : SharesUrl(inp, n)}})

DedupDone == collector_pc \in {"write", "done"}

\* C1 as stated: deduplicate_articles returns N - M + D entries for any list
\* of N items of which M share URLs (D distinct shared URLs).
C1_CountForAnyList ==
    DedupDone =>
        Len(unique_items)
          = Len(all_items) - NumSharing(all_items) + NumSharedUrls(all_items)

\* C1, amended: the list deduplicate_articles returns holds no two items with
\* the same URL (exact, case-sensitive), one entry per distinct non-empty URL
\* of the input, each the first input item carrying that URL, in input order;
\* items without a link element or with an empty link are dropped, so the
\* list has N - L - M + D entries, L being the number of such items.
C1_DedupFirstOccurrence ==
    DedupDone =>
        /\ IsFirstOccurrenceList(unique_items, all_items)
        /\ \A i \in 1..Len(unique_items) : CarriesUrl(unique_items[i])
        /\ Len(unique_items)
             = Len(all_items) - NumLinkless(all_items)
                 - NumSharing(all_items) + NumSharedUrls(all_items)
        /\ dedup_stats.nunique = Len(unique_items)
        /\ dedup_stats.duplicates = Len(all_items) - Len(unique_items)

\* a list with a repeated URL, two URLs differing only in case, and an item
\* with an empty link has been deduplicated
C1_Witness ==
    /\ DedupDone
    /\ \E k \in 1..Len(all_items) : SharesUrl(all_items, k)
    /\ \E k \in 1..Len(all_items) : all_items[k].link = EmptyLink
    /\ \E i, j \in 1..Len(unique_items) :
          /\ unique_items[i].link = "http://n/u1"
          /\ unique_items[j].link = "http://n/U1"

FilterDone == flt.called /\ flt.doc.kind = "rss"

\* the date lies in [now - Window, now]
InWindow(d, now) == now - Window <= d.t /\ d.t <= now

\* C2 as stated: an item is kept iff its date is present, parsable and in
\* the window.
KeptIfParsable(item, now) ==
    item.date.kind \in {"naive", "aware"} /\ InWindow(item.date, now)

C2_KeptIffParsableInWindow ==
    FilterDone =>
        flt.res.xml.items
          = SelectSeq(flt.doc.items, LAMBDA it : KeptIfParsable(it, flt.now))

\* C2, amended: filter_rss_by_date keeps an item iff its publication date is
\* present, parses to an instant with a UTC offset and lies in
\* [now - W, now], both boundaries included; an item whose date is missing,
\* empty, unparsable or parsable without a UTC offset is removed; and
\* kept + removed = total = number of items examined.
KeptIfAware(item, now) ==
    item.date.kind = "aware" /\ InWindow(item.date, now)

C2_KeptIffAwareInWindow ==
    FilterDone =>
        LET expected ==
              SelectSeq(flt.doc.items, LAMBDA it : KeptIfAware(it, flt.now))
        IN  /\ ~flt.res.raised
            /\ flt.res.xml = RssDoc(expected)
            /\ flt.res.kept = Len(expected)
            /\ flt.res.total = Len(flt.doc.items)
            /\ flt.res.kept + flt.res.removed = flt.res.total

\* a document with one item exactly at the lower boundary and one just after
\* `now` has been filtered: the first is kept, the second removed
C2_Witness ==
    /\ FilterDone
    /\ Len(flt.doc.items) = 2
    /\ flt.doc.items[1].date = AwareDate(flt.now - Window)
    /\ flt.doc.items[2].date = AwareDate(flt.now + 1)
    /\ flt.res.xml.items = <<flt.doc.items[1]>>
    /\ flt.res.removed = 1

\* what signal s contributes: the in-window items of its feed when the
\* request and the parse succeeded, nothing otherwise
Contribution(s) ==
    IF feeds[s].kind = "rss"
    THEN Tag(SelectSeq(feeds[s].items,
                       LAMBDA it : KeptIfAware(it, CollectorNow)), s)
    ELSE <<>>

RelevanceEnded == relevance_pc \in {"done", "raised", "exited", "noinput"}

\* C4, as claimed: a stage run on an input with zero rows completes
\* normally without raising (no division by the zero row count).  Stated
\* for the Relevance Filter, one of the downstream stages the claim names:
\* with its input present, the credential set and zero rows, the run never
\* ends in an exception.
C4_ZeroRowsCompletes ==
    (/\ RelevanceEnded
     /\ rel_input.exists
     /\ rel_key
     /\ Len(rel_input.rows) = 0)
        => relevance_pc = "done"

Items == 1..Len(task)
FetcherEnded == fetcher_pc \in {"done", "crashed"}
NameOf(i) == sanitize_filename(tasks[i].article.url, tasks[i].article_counter)
MappingWritten == mapping_file.exists /\ ~mapping_file.stale
RowsOf(i) ==
    {k \in 1..Len(mapping_file.rows) : mapping_file.rows[k].item = i}
Fetched(i) == task[i].loads > 0 /\ task[i].dl_success
LoadFailed(i) == task[i].loads > 0 /\ ~task[i].dl_success

\* the allow-list rule in the words of the claim: the domain, lower-cased
\* and without a leading 'www.', ends with '.ca', is a member of the
\* allow-list, or is a sub-domain of a member
DomainKept(url) ==
    LET d == StripWww(Lower(urlparse_netloc(url)))
    IN  \/ Len(d) >= 2 /\ d[Len(d)] = "ca"
        \/ \E a \in ALLOWED_DOMAINS :
              \E k \in 0..Len(d) : SubSeq(d, k + 1, Len(d)) = a

\* C5, as claimed: when the Fetcher stage has ended, every successfully
\* fetched item was kept if and only if the domain of its final URL passes
\* the allow-list rule (whatever its initial URL), and the content file
\* stored for every dropped item has been deleted.
C5_AllowListAndDiscard ==
    FetcherEnded =>
        \A i \in Items :
            Fetched(i) =>
                /\ (task[i].result = "success")
                       <=> DomainKept(task[i].final_url)
                /\ ~DomainKept(task[i].final_url)
                       => html_files[NameOf(i)] = Absent

\* C6: the file names are fixed by the counter when the tasks are built and
\* no two items share one; the mapping file written at the end of the stage
\* has exactly one row for each item that was fetched and passed the
\* allow-list, none for a failed or dropped item, and each row's html_file
\* names the stored file that holds that item's own content.
C6_MappingRows ==
    /\ fetcher_pc # "start" =>
          \A i, j \in Items : i # j => NameOf(i) # NameOf(j)
    /\ fetcher_pc = "done" =>
          /\ MappingWritten
          /\ \A i \in Items :
                Cardinality(RowsOf(i)) =
                    IF Fetched(i) /\ DomainKept(task[i].final_url)
                    THEN 1 ELSE 0
          /\ \A k \in 1..Len(mapping_file.rows) :
                LET row == mapping_file.rows[k]
                IN  /\ row.item \in Items
                    /\ row.article = articles[row.item]
                    /\ row.html_file = NameOf(row.item)
                    /\ row.final_url = task[row.item].final_url
                    /\ html_files[row.html_file] =
                          Page(row.item, row.final_url)

\* a run that wrote the mapping file with a row for one item and none for
\* another item that failed or was dropped
C6_Witness ==
    /\ fetcher_pc = "done"
    /\ Len(mapping_file.rows) = 1
    /\ \E i, j \in Items :
          /\ task[i].result = "success"
          /\ task[j].result \in {"skipped", "failed"}
          /\ task[j].loads = 1

\* C7: a rendering engine is created for one task and loads at most that
\* task's page; it is quit at most once, and exactly once when the task has
\* finished, whether the task returned a keep, a drop or a failure or
\* raised after the creation; when the stage has ended no created engine is
\* still alive.
C7_DriverReleased ==
    /\ \A i \in Items :
          /\ task[i].quits <= 1
          /\ task[i].loads <= 1
          /\ task[i].loads > 0 => task[i].driver # "none"
          /\ task[i].driver = "live" <=> Running(task[i])
          /\ (task[i].st = "finished" /\ task[i].driver # "none")
                => (task[i].driver = "quit" /\ task[i].quits = 1)
    /\ FetcherEnded => \A i \in Items : task[i].driver # "live"

\* the stage ended by an exception of a task that raised after its engine
\* was created, next to a task that failed to load; both engines were quit
C7_Witness ==
    /\ fetcher_pc = "crashed"
    /\ \E i, j \in Items :
          /\ task[i].result = "raised"
          /\ task[i].driver = "quit"
          /\ task[i].quits = 1
          /\ task[j].result = "failed"
          /\ task[j].quits = 1

\* C8, as claimed: when the stage has ended, an item whose load timed out
\* or raised inside download_html_selenium was loaded once, has the failure
\* outcome and was counted as a failure, has no mapping row and no stored
\* file, and every other item was processed.
C8_TimeoutIsFailure ==
    FetcherEnded =>
        \A i \in Items :
            LoadFailed(i) =>
                /\ task[i].loads = 1
                /\ task[i].result = "failed"
                /\ i \in collected
                /\ counts.failed >= 1
                /\ RowsOf(i) = {}
                /\ html_files[NameOf(i)] = Absent
                /\ \A j \in Items : task[j].st = "finished"

\* C9, as claimed: whatever happened to single items, the stage ends with
\* every item processed and with the mapping file and the summary written.
C9_BatchIsolation ==
    FetcherEnded =>
        /\ fetcher_pc = "done"
        /\ MappingWritten
        /\ \A i \in Items : task[i].st = "finished"

\* what the response says: an integer (as int() reads it), or nothing
IsInteger(response) ==
    response.kind = "text" /\ ~int(response.text).raised
IntegerOf(response) == int(response.text).value

\* C10: every call of evaluate_article returns, never raises; it returns an
\* integer in 1..5: the classifier's value when that is an integer in 1..5,
\* and 3 when the call raised, the text is no integer, or the integer is
\* outside 1..5.
C10_ScoreTotal ==
    \A k \in 1..Len(rel_results) :
        LET response == rel_input.rows[k]
            r == rel_results[k]
        IN  /\ ~r.raised
            /\ r.value \in 1..5
            /\ (IsInteger(response) /\ IntegerOf(response) \in 1..5)
                   => r.value = IntegerOf(response)
            /\ ~(IsInteger(response) /\ IntegerOf(response) \in 1..5)
                   => r.value = 3

\* evaluate_article returned 3 for a response that is the integer 0
C10_Witness ==
    /\ Len(rel_results) = 1
    /\ IsInteger(rel_input.rows[1])
    /\ IntegerOf(rel_input.rows[1]) = 0
    /\ rel_results[1].value = 3

(***************************************************************************)
(* Relevance Filter output.                                                *)
(***************************************************************************)
RelevanceRan == RelevanceEnded /\ rel_input.exists /\ rel_key

\* the rows whose score meets the threshold, in input order
RECURSIVE AtOrAboveThreshold(_, _)
AtOrAboveThreshold(results, k) ==
    IF k > Len(results) THEN <<>>
    ELSE IF results[k].value >= PERTINENCE_THRESHOLD
    THEN <<[row |-> k, pertinence_llm |-> results[k].value]>>
             \o AtOrAboveThreshold(results, k + 1)
    ELSE AtOrAboveThreshold(results, k + 1)

\* C11, as claimed: for input records with the Feed Parser's fields
\* (signal, titre, source, url, date) the Relevance Filter stage completes,
\* and its output file holds exactly the records whose score is at least
\* the threshold 4, in input order.  (Stated for a non-empty input; the
\* empty one is C4.)
C11_OutputIsThreshold ==
    (/\ RelevanceRan
     /\ rel_input.fields = ParserFields
     /\ Len(rel_input.rows) > 0)
        => /\ relevance_pc = "done"
           /\ Len(rel_results) = Len(rel_input.rows)
           /\ rel_output.rows = AtOrAboveThreshold(rel_results, 1)

\* the classifier failed for the row, or gave no integer in 1..5
ContentError(response) ==
    ~(IsInteger(response) /\ IntegerOf(response) \in 1..5)

\* C12, as claimed (Relevance Filter part): a record whose classifier call
\* failed or gave an out-of-range score gets the default value and is
\* present in the output of the stage.
C12_ContentErrorSurvives ==
    (RelevanceRan /\ relevance_pc = "done") =>
        \A k \in 1..Len(rel_input.rows) :
            ContentError(rel_input.rows[k]) =>
                /\ rel_results[k].value = 3
                /\ \E j \in 1..Len(rel_output.rows) :
                      rel_output.rows[j].row = k

(***************************************************************************)
(* Extractor.                                                              *)
(***************************************************************************)
\* C13: the rows are taken in order, one record each, and a row whose
\* content is missing, cannot be read, or whose extraction raises or gives
\* nothing gets the empty text; the warehouse file the run writes has
\* exactly one record per mapping row, in the same order.
C13_ExtractorSoftFailure ==
    /\ extractor_pc \in {"loop", "done"} =>
          /\ Len(warehouse_data) = wh_idx - 1
          /\ \A k \in 1..Len(warehouse_data) :
                /\ warehouse_data[k].row = k
                /\ warehouse_data[k].contenu =
                      IF wh_mapping.rows[k] = "text" THEN SomeText ELSE ""
    /\ extractor_pc = "done" =>
          /\ warehouse_file.exists /\ ~warehouse_file.stale
          /\ Len(warehouse_file.rows) = Len(wh_mapping.rows)
          /\ warehouse_file.rows = warehouse_data

\* a finished run whose first row had no extractable content and whose
\* second row had a text
C13_Witness ==
    /\ extractor_pc = "done"
    /\ Len(wh_mapping.rows) = 2
    /\ wh_mapping.rows[1] # "text"
    /\ wh_mapping.rows[2] = "text"
    /\ warehouse_file.rows[1].contenu = ""
    /\ warehouse_file.rows[2].contenu = SomeText

(***************************************************************************)
(* Entity Extractor.                                                       *)
(***************************************************************************)
EntityFinished(i) == i \in 1..Len(ent_task) /\ ent_task[i].st = "finished"
EntityEnded == entity_pc \in {"done", "crashed"}

\* the text handed to the first json.loads, and to the second
FirstText(response) == StripFence(TextStrip(response.text))
SecondText(response) == re_sub(FirstText(response))
FailsTwice(response) ==
    /\ response.kind = "text"
    /\ ~json_loads(FirstText(response)).ok
    /\ ~json_loads(SecondText(response)).ok

\* the mention entries of the written organisations that come from row i
EntriesFrom(i) ==
    {<<o, k>> \in (1..Len(orgs_file.rows)) \X (1..MaxEntityRows * 4) :
        /\ k <= Len(orgs_file.rows[o].articles)
        /\ orgs_file.rows[o].articles[k].article.row = i}

HasEmptyResult(x) ==
    x.resume_article = JStr(<<>>) /\ x.organisations = JList(<<>>)

\* one finished call: it returned, after one parse attempt when the first
\* succeeds and two otherwise, with the empty result when both failed
ResilientParse(i) ==
    LET response == ent_input.rows[i]
        x == ent_task[i].result
    IN  /\ ~x.raised
        /\ x.attempts <= 2
        /\ Len(x.debug) <= 1
        /\ response.kind = "text" =>
              /\ x.attempts = IF json_loads(FirstText(response)).ok
                              THEN 1 ELSE 2
              /\ FailsTwice(response) => HasEmptyResult(x)

\* C14, as claimed: ... and what is appended to the debug side channel on
\* the second failure is the raw response.
C14_DebugHoldsRawResponse ==
    \A i \in 1..Len(ent_task) :
        EntityFinished(i) =>
            /\ ResilientParse(i)
            /\ ent_task[i].result.debug # <<>> =>
                  ent_task[i].result.debug = <<ent_input.rows[i].text>>

\* C14, amended: a call never raises and makes at most two parse attempts,
\* the second one on the normalized text; when both fail it returns zero
\* mentions and an empty summary and appends the text as it stood at the
\* second attempt (fence stripped, normalized) to the debug file, when that
\* file can be opened.  In a finished run the written organisations hold no
\* mention from a record whose response failed twice, and all the mentions
\* of every other record.
C14_ResilientParse ==
    /\ \A i \in 1..Len(ent_task) :
          EntityFinished(i) =>
              /\ ResilientParse(i)
              /\ ent_task[i].result.debug # <<>> =>
                    /\ FailsTwice(ent_input.rows[i])
                    /\ ent_task[i].result.debug =
                          <<SecondText(ent_input.rows[i])>>
    /\ entity_pc = "done" =>
          \A i \in 1..Len(ent_task) :
              Cardinality(EntriesFrom(i)) =
                  IF FailsTwice(ent_input.rows[i]) THEN 0
                  ELSE Len(ItemsOf(ent_task[i].result.organisations))

\* a finished run of two records: the response of one failed both parse
\* attempts and was appended to the debug file, the other's mention is in
\* the written organisations
C14_Witness ==
    /\ entity_pc = "done"
    /\ Len(ent_task) = 2
    /\ \E i, j \in 1..2 :
          /\ FailsTwice(ent_input.rows[i])
          /\ ent_task[i].result.attempts = 2
          /\ debug_file = <<SecondText(ent_input.rows[i])>>
          /\ EntriesFrom(i) = {}
          /\ Cardinality(EntriesFrom(j)) = 1

\* the response is wrapped in fence markers and is valid JSON but for one
\* raw line break inside a string value, between two characters of the
\* value and next to no quote
InsideString(text, p) ==
    Cardinality({q \in 1..(p - 1) : text[q] = QUOTE}) % 2 = 1
EmbeddedLineBreak(response) ==
    /\ response.kind = "text"
    /\ LET text == response.text
       IN  /\ Len(text) >= 2
           /\ Head(text) = FENCE_JSON
           /\ text[Len(text)] = FENCE
           /\ \E p \in 2..(Len(text) - 1) :
                 /\ text[p] = NL
                 /\ InsideString(text, p)
                 /\ text[p - 1] \notin {QUOTE, SP, NL}
                 /\ text[p + 1] \notin {QUOTE, NL}
                 /\ json_loads(StripFence(TextStrip(DeleteAt(text, p)))).ok

\* C15, as claimed: a fenced response with a raw line break embedded in a
\* string value yields, after the normalization retry, its parsed summary
\* and mention list, not the empty result.
C15_EmbeddedBreakIsParsed ==
    \A i \in 1..Len(ent_task) :
        (EntityFinished(i) /\ EmbeddedLineBreak(ent_input.rows[i])) =>
            /\ ent_task[i].result.resume_article # JStr(<<>>)
            /\ Truthy(ent_task[i].result.organisations)

(***************************************************************************)
(* aggregate_organizations.                                                *)
(***************************************************************************)
AggregateDone == agg.called /\ ~agg.result.raised
AggOrgs == agg.result.organisations

RECURSIVE SumMentions(_)
SumMentions(organisations) ==
    IF organisations = <<>> THEN 0
    ELSE Head(organisations).mentions + SumMentions(Tail(organisations))

\* C16: every organisation returned has a count equal to the length of its
\* articles sequence, and the counts add up to the number of mentions in
\* the extractions given.
C16_CountInvariant ==
    AggregateDone =>
        /\ \A o \in 1..Len(AggOrgs) :
              AggOrgs[o].mentions = Len(AggOrgs[o].articles)
        /\ SumMentions(AggOrgs) = Len(MentionPairs(agg.input))

\* a call whose first extraction lists one name twice and whose second
\* lists it again: that organisation has count 3
C16_Witness ==
    /\ AggregateDone
    /\ Len(agg.input) = 2
    /\ \E o \in 1..Len(AggOrgs) :
          /\ AggOrgs[o].mentions = 3
          /\ Len(AggOrgs[o].articles) = 3

\* extraction k lists the name nom
Lists(extraction, nom) ==
    \E m \in 1..Len(extraction.organisations.v) :
        extraction.organisations.v[m].v[K_nom] = nom

\* C17, as claimed: the articles sequence of every organisation has exactly
\* one entry per record whose extraction listed that exact name, also when
\* the record names the organisation more than once, and no entry from a
\* record that did not list it.
C17_OneEntryPerRecord ==
    AggregateDone =>
        \A o \in 1..Len(AggOrgs) :
            \A k \in 1..Len(agg.input) :
                Cardinality({e \in 1..Len(AggOrgs[o].articles) :
                    AggOrgs[o].articles[e].article
                        = agg.input[k].article}) =
                    IF Lists(agg.input[k], AggOrgs[o].nom) THEN 1 ELSE 0

\* the place of the first mention of nom in the fold
FirstAppearance(nom) ==
    LET pairs == MentionPairs(agg.input)
    IN  CHOOSE p \in 1..Len(pairs) :
            /\ pairs[p].org_data.v[K_nom] = nom
            /\ \A q \in 1..(p - 1) : pairs[q].org_data.v[K_nom] # nom

\* C19: the organisations returned are in order of non-increasing count,
\* and those with equal counts in the order of the first appearance of
\* their names in the fold; every name given appears once.
C19_Ranking ==
    AggregateDone =>
        /\ \A a, b \in 1..Len(AggOrgs) :
              a < b =>
                 /\ AggOrgs[a].mentions >= AggOrgs[b].mentions
                 /\ AggOrgs[a].nom # AggOrgs[b].nom
                 /\ AggOrgs[a].mentions = AggOrgs[b].mentions =>
                       FirstAppearance(AggOrgs[a].nom)
                           < FirstAppearance(AggOrgs[b].nom)
        /\ \A p \in 1..Len(MentionPairs(agg.input)) :
              \E o \in 1..Len(AggOrgs) :
                  AggOrgs[o].nom = MentionPairs(agg.input)[p].org_data.v[K_nom]

\* three organisations: the one named last comes first with count 2, the
\* two others follow, equal, in the order of their first appearance
C19_Witness ==
    /\ AggregateDone
    /\ Len(AggOrgs) = 3
    /\ AggOrgs[1].mentions = 2
    /\ FirstAppearance(AggOrgs[1].nom) = 3
    /\ AggOrgs[2].mentions = 1
    /\ AggOrgs[3].mentions = 1
    /\ FirstAppearance(AggOrgs[2].nom) = 1
    /\ FirstAppearance(AggOrgs[3].nom) = 2

(***************************************************************************)
(* Entity Extractor runs.                                                  *)
(***************************************************************************)
\* the extractions of all rows in input order, as main would keep them
RECURSIVE InInputOrder(_)
InInputOrder(k) ==
    IF k > Len(ent_task) THEN <<>>
    ELSE LET extraction_data == ExtractionData(k, ent_task[k].result)
         IN  (IF Truthy(extraction_data.organisations)
              THEN <<[article |-> extraction_data.article,
                      organisations |-> extraction_data.organisations]>>
              ELSE <<>>) \o InInputOrder(k + 1)

\* C18, as claimed: for fixed records and responses every interleaving
\* gives the same aggregated output and the same per-article files: those
\* of the records taken in input order.
C18_OrderIndependent ==
    entity_pc = "done" =>
        /\ orgs_file.rows =
              aggregate_organizations(InInputOrder(1)).organisations
        /\ \A k \in 1..Len(ent_task) :
              article_files[k] = ExtractionData(k, ent_task[k].result)
        /\ \A k \in 1..Len(ent_task) : summaries_file.rows[k].article.row = k

\* C20, as claimed: whatever the service answered for single records, the
\* stage completes and writes the organisations file and the summaries
\* file, with the mentions of all other records.
C20_BatchIsolation ==
    EntityEnded =>
        /\ entity_pc = "done"
        /\ orgs_file.exists
        /\ summaries_file.exists

(***************************************************************************)
(* Feed Parser.                                                            *)
(***************************************************************************)
ParserWrote == parser_pc = "done"
ParserEnded == parser_pc \in {"done", "noinput", "error"}

\* C27, as claimed: every record written by the Feed Parser carries in its
\* signal field the name of the signal whose query returned its item.
C27_SignalPreserved ==
    ParserWrote =>
        \A k \in 1..Len(raw_file.rows) :
            raw_file.rows[k].signal = SignalName(parser_input.items[k].sig)

\* the field of a record that comes from element e of its item
FieldDegrades(e, field) ==
    /\ e = NoElement => field = NotAvailable
    /\ e \notin {NoElement, None} => field = e

\* C28: for a well-formed document the Feed Parser writes one record per
\* item, in document order; a field whose element is missing from the item
\* is the sentinel N/A, a field whose element has a text is that text, and
\* the items after an item with missing fields are all there.
C28_FieldDegradation ==
    (ParserWrote /\ parser_input.kind = "rss") =>
        /\ Len(raw_file.rows) = Len(parser_input.items)
        /\ \A k \in 1..Len(parser_input.items) :
              LET item == parser_input.items[k]
                  rec == raw_file.rows[k]
              IN  /\ FieldDegrades(item.title, rec.titre)
                  /\ FieldDegrades(item.source, rec.source)
                  /\ FieldDegrades(item.link, rec.url)
                  /\ FieldDegrades(item.pubDate, rec.date)

\* a run over two items: the first has no element at all, the second has
\* them all, and both records are written
C28_Witness ==
    /\ ParserWrote
    /\ parser_input.kind = "rss"
    /\ Len(parser_input.items) = 2
    /\ parser_input.items[1].title = NoElement
    /\ parser_input.items[1].source = NoElement
    /\ parser_input.items[1].link = NoElement
    /\ parser_input.items[1].pubDate = NoElement
    /\ raw_file.rows[1].url = NotAvailable
    /\ raw_file.rows[2].url = "text"
    /\ raw_file.rows[2].titre = "titre"

\* C29, as claimed: on a document that is not well-formed the Feed Parser
\* ends in an error outcome and writes no records file.
C29_MalformedFailsLoudly ==
    (ParserEnded /\ parser_input.dir /\ parser_input.exists
        /\ parser_input.kind = "malformed") =>
        /\ parser_pc = "error"
        /\ ~(raw_file.exists /\ ~raw_file.stale)

(***************************************************************************)
(* Lead Qualifier.                                                         *)
(***************************************************************************)
QualifierEnded == qualifier_pc \in {"done", "raised", "crashed"}
LeadsWritten == leads_file.exists /\ ~leads_file.stale

\* the verdict the service returned for organisation i, None if none
VerdictOf(i) == qualify_organization(qual_input.rows[i])
\* it is a verdict whose lead_potentiel field is true
IsLeadTrue(i) ==
    /\ VerdictOf(i).t = "obj"
    /\ K_lead_potentiel \in DOMAIN VerdictOf(i).v
    /\ VerdictOf(i).v[K_lead_potentiel] = JBool(TRUE)
\* the places of organisation i in the leads written
EntriesOf(i) ==
    IF LeadsWritten
    THEN {k \in 1..Len(leads_file.rows) : leads_file.rows[k].organisation = i}
    ELSE {}

\* C21, as claimed: the leads output has at most one entry per organisation,
\* and has an entry for an organisation if and only if the service returned
\* a parsable verdict for it whose lead_potentiel field is true.
C21_RetainedIffLead ==
    QualifierEnded =>
        \A i \in 1..Len(qual_input.rows) :
            /\ Cardinality(EntriesOf(i)) <= 1
            /\ EntriesOf(i) # {} <=> IsLeadTrue(i)

\* what the worker of organisation i returns, whenever it runs
OutcomeOf(i) == process_organization(i, VerdictOf(i))
\* the organisations whose worker returns a lead
LeadSet == {i \in 1..Len(qual_input.rows) : OutcomeOf(i).lead}
\* the run writes the file: no worker raises and all scores can be compared
RunWrites ==
    /\ \A i \in 1..Len(qual_input.rows) : ~OutcomeOf(i).raised
    /\ \A i, j \in LeadSet :
          i # j => Comparable(VerdictOf(i).v[K_score], VerdictOf(j).v[K_score])
\* the turn of the as_completed loop that took organisation i
TurnOf(i) == CHOOSE k \in 1..Len(qual_order) : qual_order[k] = i

C23_BatchIsolation ==
    (QualifierEnded /\ qual_input.rows # <<>>) =>
        /\ qualifier_pc = "done"
        /\ LeadsWritten
        /\ \A i \in 1..Len(qual_input.rows) :
              IsLeadTrue(i) => EntriesOf(i) # {}

(***************************************************************************)
(* Missing input: the stages after the Collector                           *)
(***************************************************************************)
\* a stage has left its start
Left(pc) == pc \notin {"idle", "start"}

\* the mapping file as the Fetcher found it
InitialMapping == [exists |-> dir_stale, stale |-> dir_stale, rows |-> <<>>]

ParserNoInput ==
    /\ parser_pc = "noinput"
    /\ all_articles = <<>>
    /\ raw_file \in {NoOutput, StaleRaw}
FetcherNoInputEnd ==
    /\ fetcher_pc = "noinput"
    /\ tasks = <<>> /\ task = <<>> /\ collected = {}
    /\ html_files = [k \in 1..Len(articles) |-> InitialFile]
    /\ mapping_file = InitialMapping
RelevanceNoInput ==
    /\ relevance_pc = "noinput"
    /\ rel_idx = 1 /\ rel_results = <<>> /\ rel_filtered = <<>>
    /\ rel_output \in {NoOutput, StaleOutput}
ExtractorNoInput ==
    /\ extractor_pc = "noinput"
    /\ wh_idx = 1 /\ warehouse_data = <<>>
    /\ warehouse_file \in {NoOutput, StaleOutput}
EntityNoInput ==
    /\ entity_pc = "noinput"
    /\ ent_task = <<>> /\ ent_order = <<>>
    /\ article_files = <<>> /\ debug_file = <<>>
    /\ orgs_file \in {NoOutput, StaleOutput}
    /\ summaries_file = orgs_file
QualifierNoInput ==
    /\ qualifier_pc = "noinput"
    /\ qual_task = <<>> /\ qual_order = <<>>
    /\ leads_file \in {NoOutput, StaleLeads}

\* C25: a stage after the Collector whose input is absent ends at once in
\* its "run the previous stage" exit: it has made no external call (no task,
\* no row evaluated) and every output artifact is as the run found it
C25_MissingInput ==
    /\ (Left(parser_pc) /\ ~(parser_input.dir /\ parser_input.exists))
           => ParserNoInput
    /\ (Left(fetcher_pc) /\ ~fetch_input) => FetcherNoInputEnd
    /\ (Left(relevance_pc) /\ ~rel_input.exists) => RelevanceNoInput
    /\ (Left(extractor_pc) /\ ~wh_mapping.exists) => ExtractorNoInput
    /\ (Left(entity_pc) /\ ~ent_input.exists) => EntityNoInput
    /\ (Left(qualifier_pc) /\ ~qual_input.exists) => QualifierNoInput

\* a stage ended for want of its input and the files of an earlier run of
\* the date are still there
C25_Witness ==
    \/ parser_pc = "noinput" /\ raw_file = StaleRaw
           /\ parser_input.items # <<>>
    \/ fetcher_pc = "noinput" /\ dir_stale /\ articles # <<>>

(***************************************************************************)
(* Missing credential: the stages that use the language-model service      *)
(***************************************************************************)
RelevanceExited ==
    /\ relevance_pc = "exited"
    /\ rel_idx = 1 /\ rel_results = <<>> /\ rel_filtered = <<>>
    /\ rel_output \in {NoOutput, StaleOutput}
EntityExited ==
    /\ entity_pc = "exited"
    /\ ent_task = <<>> /\ ent_order = <<>>
    /\ all_extractions_data = <<>>
    /\ article_files = <<>> /\ debug_file = <<>>
    /\ orgs_file \in {NoOutput, StaleOutput}
    /\ summaries_file = orgs_file
QualifierExited ==
    /\ qualifier_pc = "exited"
    /\ qual_task = <<>> /\ qual_order = <<>> /\ qualified_leads = <<>>
    /\ leads_file \in {NoOutput, StaleLeads}

\* C24: in the Relevance Filter, the Entity Extractor and the Lead Qualifier,
\* when the input exists and the credential is absent, the stage is, as soon
\* as it has left its start, in its exit(1) end: no row was taken up, no call
\* was submitted or made, no output file was written; no call is ever made
\* without the credential
C24_CredentialFatal ==
    /\ (Left(relevance_pc) /\ rel_input.exists /\ ~rel_key)
           => RelevanceExited
    /\ (Left(entity_pc) /\ ent_input.exists /\ ~ent_key) => EntityExited
    /\ (Left(qualifier_pc) /\ qual_input.exists /\ ~qual_key)
           => QualifierExited

\* a stage with records to work on and an earlier run's output in place
\* ended for want of the credential
C24_Witness ==
    \/ /\ qualifier_pc = "exited"
       /\ qual_input.rows # <<>> /\ leads_file = StaleLeads
    \/ /\ entity_pc = "exited"
       /\ ent_input.rows # <<>> /\ orgs_file = StaleOutput
    \/ /\ relevance_pc = "exited"
       /\ rel_input.rows # <<>> /\ rel_output = StaleOutput

(***************************************************************************)
(* Re-run on the same date                                                 *)
(***************************************************************************)
\* C26: when a stage has run to its end, none of its artifacts for the date
\* is still the one an earlier run of the date left (the claim as stated)
C26_RerunOverwrites ==
    /\ collector_pc = "done" => ~consolidated.stale
    /\ parser_pc = "done" => ~raw_file.stale
    /\ relevance_pc = "done" => ~rel_output.stale
    /\ fetcher_pc = "done" =>
           /\ ~mapping_file.stale
           /\ \A k \in 1..Len(html_files) : html_files[k] # Stale
    /\ extractor_pc = "done" => ~warehouse_file.stale
    /\ entity_pc = "done" => ~orgs_file.stale /\ ~summaries_file.stale
    /\ qualifier_pc = "done" => ~leads_file.stale

(***************************************************************************)
(* The thread pools                                                        *)
(***************************************************************************)
LiveDrivers == {i \in 1..Len(task) : task[i].driver = "live"}
InFlight ==
    [fetcher |-> NumRunning, entity |-> NumEntityRunning,
     qualifier |-> NumQualRunning]

\* at most 4 items in flight in each pool, at most 4 browsers
PoolBound ==
    /\ \A p \in DOMAIN InFlight : InFlight[p] <= 4
    /\ Cardinality(LiveDrivers) <= 4

\* the rank of a task's state: an item is taken up once, is carried through
\* by the thread that took it, and is never taken up again
Rank(st) ==
    CASE st = "queued" -> 0
      [] st \in {"created", "running"} -> 1
      [] st = "downloaded" -> 2
      [] st = "decided" -> 3
      [] st = "finished" -> 4
Forward(old, new) ==
    /\ Len(new) = Len(old) \/ old = <<>>
    /\ \A i \in 1..Len(old) :
          /\ Rank(new[i].st) >= Rank(old[i].st)
          /\ old[i].st = "finished" => new[i] = old[i]
OnceStep ==
    /\ Forward(task, task')
    /\ Forward(ent_task, ent_task')
    /\ Forward(qual_task, qual_task')
    /\ \A i \in 1..Len(task') : task'[i].loads <= 1

Submitted == task # <<>> \/ ent_task # <<>> \/ qual_task # <<>>
Finished(ts) == \A i \in 1..Len(ts) : ts[i].st = "finished"
Processed ==
    /\ Submitted
    /\ Finished(task) /\ Finished(ent_task) /\ Finished(qual_task)

\* C30: in the Fetcher, the Entity Extractor and the Lead Qualifier at most
\* 4 items are in flight at any time and at most 4 browsers exist; a task
\* only moves forward and a finished task is never run again; once the
\* items are submitted every one of them is eventually finished, also when
\* the main thread has stopped collecting
C30_BoundedParallelism ==
    /\ []PoolBound
    /\ [][OnceStep]_vars
    /\ Submitted ~> Processed

\* the bound binds: 4 browsers are live and a fifth article waits
C30_Witness ==
    /\ Cardinality(LiveDrivers) = 4
    /\ \E i \in 1..Len(task) : task[i].st = "queued"

=============================================================================
